---------------------------- MODULE Spec2Model ----------------------------
(***************************************************************************)
(* Model of the pycosio storage virtualisation core:                       *)
(*   - SystemBase path resolution (relpath, is_locator, split_locator),    *)
(*   - SystemBase directory virtualisation (isdir, isfile, list_objects),  *)
(*   - S3BufferedIO multipart write (_flush, _close_writable),             *)
(*   - the buffered read/write engine of ObjectBufferedIOBase.             *)
(*   - the disk cache of airfs (get_cache, set_cache, clear_cache).        *)
(*                                                                         *)
(* Python strings are modelled as sequences of one-character strings, so   *)
(* that split / strip / prefix operations are computed, not assumed.       *)
(***************************************************************************)
EXTENDS Integers, Sequences, FiniteSets, TLC

VARIABLES
    path,       \* SpecPath: the path handed to relpath
    res,        \* SpecPath: successive results of relpath (re-resolution)
    locs,       \* backend: the existing locators (buckets)
    objs,       \* backend: per locator, its keys in listing order
    call,       \* the last System call: arguments, outcome, backend calls
    content,    \* buffered write: the bytes the caller writes
    wpos,       \* buffered write: how many of them were accepted
    wbuf,       \* buffered write: the write buffer being filled
    seek,       \* S3BufferedIO._seek: number of the last part
    upload_args,    \* S3BufferedIO._upload_args: holds UploadId once created
    write_futures,  \* S3BufferedIO._write_futures: the dispatched parts
    wpc,        \* buffered write: open, closing, closed, raised
    widx,       \* _close_writable: position of its loop over the parts
    completed,  \* backend: the part lists of the completion calls
    reordered,  \* worker pool: an upload ended before an earlier part's
    object,     \* backend: the object the stream writes
    rpc,        \* buffered read: idle, reading, eof, failed
    max_buffers,    \* buffered read: how many buffers are preloaded
    read_queue, \* buffered read: the preloaded buffers, oldest first
    rnext,      \* buffered read: index of the next buffer to request
    roff,       \* buffered read: bytes of the oldest buffer delivered
    readout,    \* buffered read: the bytes delivered to the caller
    overtaken,  \* worker pool: a fetch ended before an earlier buffer's
    client,     \* SystemBase._client: 0 for None, else the handle
    made,       \* how many times _get_client was invoked
    thr,        \* per thread: its position in the client property
    returned,   \* the handles the client property has returned
    now,        \* disk cache: time.time(), in seconds
    cache,      \* disk cache: the files of one name in CACHE_DIR, per mode
    hist        \* disk cache: what the callers did so far (history)

pathVars == <<path, res>>
sysVars == <<locs, objs, call>>
wrVars == <<content, wpos, wbuf, seek, upload_args, write_futures, wpc, widx,
            completed, reordered, object>>
rdVars == <<rpc, max_buffers, read_queue, rnext, roff, readout, overtaken>>
ioVars == <<wrVars, rdVars>>
clientVars == <<client, made, thr, returned>>
cacheVars == <<now, cache, hist>>
vars == <<path, res, locs, objs, call, content, wpos, wbuf, seek, upload_args,
          write_futures, wpc, widx, completed, reordered, object, rpc,
          max_buffers, read_queue, rnext, roff, readout, overtaken, client,
          made, thr, returned, now, cache, hist>>

\* The object while nothing was stored
NoObject == [exists |-> FALSE, data |-> <<>>]

\* A buffered write stream just opened on the bytes c, nothing stored, no
\* read stream
IoInit(c) ==
    /\ content = c
    /\ wpos = 0
    /\ wbuf = <<>>
    /\ seek = 0
    /\ upload_args = {}
    /\ write_futures = <<>>
    /\ wpc = "open"
    /\ widx = 0
    /\ completed = <<>>
    /\ reordered = FALSE
    /\ object = NoObject
    /\ rpc = "idle"
    /\ max_buffers = 0
    /\ read_queue = <<>>
    /\ rnext = 0
    /\ roff = 0
    /\ readout = <<>>
    /\ overtaken = FALSE

\* The value of `call` while no System call has been made
NoCall == [op |-> "none"]

\* Most threads that share one System
NumThreads == 2
Threads == 1..NumThreads

\* SystemBase.__init__: self._client = None; no thread is in the property
ClientInit ==
    /\ client = 0
    /\ made = 0
    /\ thr = [t \in Threads |-> [pc |-> "idle", tmp |-> 0, n |-> 0]]
    /\ returned = {}

\* No file of that mode is in CACHE_DIR for the name
NoFile == [exists |-> FALSE, mtime |-> 0, obj |-> 0]
\* No set_cache was made yet
NoEntry == [obj |-> 0, mode |-> "none"]

\* An empty CACHE_DIR at time 0
CacheInit ==
    /\ now = 0
    /\ cache = [m \in {"s", "l"} |-> NoFile]
    /\ hist = [ops |-> 0, ticks |-> 0, latest |-> NoEntry,
               set_at |-> [m \in {"s", "l"} |-> 0], touched |-> 0,
               mixed |-> FALSE]

(***************************************************************************)
(* Python str helpers                                                      *)
(***************************************************************************)
SEP == "/"

\* A local variable: v is computed once and named inside F
With(v, F(_)) == F(v)

\* s[i:] with a 1-based start index
Drop(s, i) == SubSeq(s, i, Len(s))

\* s.startswith(sub, i - 1)
OccursAt(s, sub, i) ==
    /\ i >= 1
    /\ i + Len(sub) - 1 <= Len(s)
    /\ \A j \in 1..Len(sub) : s[i + j - 1] = sub[j]

\* s.find(sub) + 1 : index of the first occurrence, 0 when there is none
Find(s, sub) ==
    With({i \in 1..(Len(s) + 1) : OccursAt(s, sub, i)},
         LAMBDA hits :
            IF hits = {} THEN 0 ELSE CHOOSE i \in hits : \A j \in hits : i <= j)

\* s.lstrip('/')
RECURSIVE lstrip(_)
lstrip(s) == IF s # <<>> /\ Head(s) = SEP THEN lstrip(Tail(s)) ELSE s

\* s.rstrip('/')
RECURSIVE rstrip(_)
rstrip(s) ==
    IF s # <<>> /\ s[Len(s)] = SEP THEN rstrip(SubSeq(s, 1, Len(s) - 1)) ELSE s

\* s.strip('/')
strip(s) == lstrip(rstrip(s))

\* s.split(sep, 1) : one element when sep does not occur, else
\* [before first occurrence, after first occurrence]
split1(s, sep) ==
    With(Find(s, sep),
         LAMBDA i :
            IF i = 0 THEN <<s>>
            ELSE <<SubSeq(s, 1, i - 1), Drop(s, i + Len(sep))>>)


(***************************************************************************)
(* Roots.  SystemBase.roots is a tuple of literal strings and compiled     *)
(* patterns (S3: 's3://' and 'http://[\w.-]+\.s3\.amazonaws\.com', ...).   *)
(* The model keeps one root of each kind over a five-character alphabet:   *)
(* the literal "s:" and the pattern  h\w+:  (literal head, one or more     *)
(* word characters, literal tail).                                         *)
(***************************************************************************)
Chars == {"s", ":", "/", "a", "h"}
WordChars == {"s", "a", "h", "b"}

LiteralRoot == [kind |-> "str", text |-> <<"s", ":">>]
PatternRoot == [kind |-> "re", head |-> <<"h">>, cls |-> WordChars, tail |-> <<":">>]

\* _get_roots(): the configured roots, in the order relpath tries them
roots == <<LiteralRoot, PatternRoot>>

\* Longest paths drawn as inputs of the path functions
MaxPathLen == 5
\* How many times relpath is re-applied to its own output
MaxResolve == 2

SeqsUpTo(S, n) == UNION {[1..k -> S] : k \in 0..n}
Paths == SeqsUpTo(Chars, MaxPathLen)

\* The pattern root `p` matches s at index i with exactly n class characters
ReMatchN(p, s, i, n) ==
    /\ n >= 1
    /\ OccursAt(s, p.head, i)
    /\ i + Len(p.head) + n - 1 <= Len(s)
    /\ \A j \in 0..(n - 1) : s[i + Len(p.head) + j] \in p.cls
    /\ OccursAt(s, p.tail, i + Len(p.head) + n)

\* Index after the (greedy) match of p at index i of s; 0 when p does not
\* match there
ReMatchEnd(p, s, i) ==
    With({n \in 1..Len(s) : ReMatchN(p, s, i, n)},
         LAMBDA ns :
            IF ns = {} THEN 0
            ELSE i + Len(p.head) + Len(p.tail)
                 + (CHOOSE m \in ns : \A k \in ns : k <= m))

\* re.search: index of the leftmost match of p in s, 0 when there is none
ReSearch(p, s) ==
    With({i \in 1..Len(s) : ReMatchEnd(p, s, i) # 0},
         LAMBDA hits :
            IF hits = {} THEN 0 ELSE CHOOSE i \in hits : \A j \in hits : i <= j)

\* root.split(path, maxsplit=1) for a compiled pattern
re_split1(p, s) ==
    With(ReSearch(p, s),
         LAMBDA i :
            IF i = 0 THEN <<s>>
            ELSE <<SubSeq(s, 1, i - 1), Drop(s, ReMatchEnd(p, s, i))>>)

\* The list relpath indexes with [1] for one root
root_split(root, p) ==
    IF root.kind = "re" THEN re_split1(root, p) ELSE split1(p, root.text)

\* Mutant of relpath: an unmatched path loses its trailing separators
RECURSIVE relpath_unmatched_rstrip_from(_, _)
relpath_unmatched_rstrip_from(p, i) ==
    IF i > Len(roots) THEN rstrip(p)
    ELSE With(root_split(roots[i], p),
              LAMBDA parts :
                 IF Len(parts) < 2 THEN relpath_unmatched_rstrip_from(p, i + 1)
                 ELSE lstrip(parts[2]))

relpath_unmatched_rstrip(p) == relpath_unmatched_rstrip_from(p, 1)

\* Mutant of relpath: the remainder loses its trailing separators as well
RECURSIVE relpath_strip_from(_, _)
relpath_strip_from(p, i) ==
    IF i > Len(roots) THEN p
    ELSE With(root_split(roots[i], p),
              LAMBDA parts :
                 IF Len(parts) < 2 THEN relpath_strip_from(p, i + 1)
                 ELSE strip(parts[2]))

\* The loop of relpath from the i-th root on: the first root whose split has
\* a second element wins (IndexError: continue); no root: the path itself
RECURSIVE relpath_from(_, _)
relpath_from(p, i) ==
    IF i > Len(roots) THEN p
    ELSE With(root_split(roots[i], p),
              LAMBDA parts :
                 IF Len(parts) < 2 THEN relpath_from(p, i + 1)
                 ELSE lstrip(parts[2]))

\* SystemBase.relpath
relpath(p) ==
    relpath_from(p, 1)

(***************************************************************************)
(* SpecPath: the path functions applied to every path up to MaxPathLen.    *)
(***************************************************************************)
InitPath ==
    /\ path \in Paths
    /\ res = <<>>
    /\ locs = {}
    /\ objs = <<>>
    /\ call = NoCall
    /\ IoInit(<<>>)
    /\ ClientInit
    /\ CacheInit

\* One call of relpath: on the input path first, then on its own output
Relpath ==
    /\ Len(res) < MaxResolve
    /\ res' = Append(res, relpath(IF res = <<>> THEN path ELSE res[Len(res)]))
    /\ UNCHANGED path
    /\ UNCHANGED <<sysVars, clientVars, cacheVars, ioVars>>

NextPath == Relpath

SpecPath == InitPath /\ [][NextPath]_vars

\* The path begins with the literal root r
StartsWithRoot(r, p) == r.kind = "str" /\ OccursAt(p, r.text, 1)

\* The pattern root r matches somewhere in the path
PatternMatches(r, p) == r.kind = "re" /\ ReSearch(r, p) # 0

RootIdx == 1..Len(roots)

\* C1: a path that begins with no literal root and matches no pattern root
\* is returned unchanged by relpath, even when a root string occurs
\* somewhere after its first character.
C1_UnmatchedUnchanged ==
    ( /\ Len(res) >= 1
      /\ \A k \in RootIdx : ~StartsWithRoot(roots[k], path)
      /\ \A k \in RootIdx : ~PatternMatches(roots[k], path) )
    => res[1] = path

\* The places (root, index) where a configured root occurs in p
RootHits(p) ==
    {h \in RootIdx \X (1..(Len(p) + 1)) :
        IF roots[h[1]].kind = "re"
        THEN ReMatchEnd(roots[h[1]], p, h[2]) # 0
        ELSE OccursAt(p, roots[h[1]].text, h[2])}

\* The roots that claim p: those relpath would strip
Claiming(p) == {k \in RootIdx : Len(root_split(roots[k], p)) = 2}

\* C2 as stated: for every path claimed by exactly one configured root,
\* relpath(relpath(p)) = relpath(p).
C2_IdempotentClaimedOnce ==
    (Len(res) = 2 /\ Cardinality(Claiming(path)) = 1) => res[2] = res[1]

\* C2 (amended): for every path holding exactly one occurrence of a
\* configured root, relpath(relpath(p)) = relpath(p).
C2_IdempotentSingleOccurrence ==
    (Len(res) = 2 /\ Cardinality(RootHits(path)) = 1) => res[2] = res[1]

\* A root was stripped from a path holding exactly one root occurrence and
\* the non-empty result was resolved again.
C2_Witness ==
    /\ Len(res) = 2
    /\ Cardinality(RootHits(path)) = 1
    /\ res[1] # path
    /\ res[1] # <<>>
    /\ res[1][Len(res[1])] = SEP


\* What follows the root that relpath strips from p
Remainder(p) ==
    root_split(roots[CHOOSE k \in Claiming(p) : \A j \in Claiming(p) : k <= j],
               p)[2]

\* s ends with a separator
EndsSep(s) == s # <<>> /\ s[Len(s)] = SEP

\* r is s without its leading separators
LeadingStripped(r, s) ==
    /\ r = <<>> \/ r[1] # SEP
    /\ \E n \in 0..Len(s) :
          /\ \A i \in 1..n : s[i] = SEP
          /\ r = Drop(s, n + 1)

\* C23 as stated: after a root is stripped, relpath removes every leading
\* separator of the remainder and no trailing one: the result does not
\* start with a separator, and for a non-empty remainder it ends with a
\* separator iff the input path did.
C23_LeadingOnlyRemainder ==
    (Len(res) >= 1 /\ Claiming(path) # {})
    => /\ LeadingStripped(res[1], Remainder(path))
       /\ Remainder(path) # <<>> => (EndsSep(res[1]) <=> EndsSep(path))

\* C23 (amended): after a root is stripped, the result is the remainder
\* without its leading separators; it does not start with a separator, and
\* when it is not empty it ends with a separator iff the input path did.
C23_LeadingOnlyResult ==
    (Len(res) >= 1 /\ Claiming(path) # {})
    => /\ LeadingStripped(res[1], Remainder(path))
       /\ res[1] # <<>> => (EndsSep(res[1]) <=> EndsSep(path))

\* The root and a leading separator were stripped from a path that ends in
\* a separator, which the result kept
C23_Witness ==
    /\ Len(res) >= 1
    /\ path = LiteralRoot.text \o <<SEP, "a", SEP>>
    /\ Remainder(path) = <<SEP, "a", SEP>>
    /\ res[1] = <<"a", SEP>>


\* Index of the last character of s that is no separator, 0 without one
LastNonSep(s) ==
    With({i \in 1..Len(s) : s[i] # SEP},
         LAMBDA I : IF I = {} THEN 0 ELSE CHOOSE i \in I : \A j \in I : j <= i)

\* s is not empty and has no separator before its last non-separator
\* character
NamesLocator(s) == s # <<>> /\ \A i \in 1..LastNonSep(s) : s[i] # SEP


(***************************************************************************)
(* Backend store.  The abstract client of SystemBase is modelled on the    *)
(* S3 calls: head_bucket / head_object, prefix listing, put_object,        *)
(* create_bucket.  The objects are in locator "a"; locator "b" may be      *)
(* created and stays empty.  A key is a file named "a" or "ab" in the      *)
(* directory "a/" nested up to MaxDepth - 1 times, or such a directory     *)
(* itself: a key ending in the separator is an explicit directory marker.  *)
(* Locator and segment names hold no root string.                          *)
(***************************************************************************)
Segs == {<<"a">>, <<"a", "b">>}
LocNames == {<<"a">>, <<"b">>}
\* The locator that holds the objects
DataLocs == {<<"a">>}
\* The order in which the backend lists its locators
LocOrder == <<<<"a">>, <<"b">>>>

\* Deepest key, in segments
MaxDepth == 2
\* Most objects the store holds
MaxKeys == 3

\* The directory "a/" nested d times
RECURSIVE DirOfDepth(_)
DirOfDepth(d) == IF d = 0 THEN <<>> ELSE <<"a", SEP>> \o DirOfDepth(d - 1)

PlainKeys == {DirOfDepth(d) \o f : d \in 0..(MaxDepth - 1), f \in Segs}
MarkerKeys == {DirOfDepth(d) : d \in 1..(MaxDepth - 1)}
Keys == PlainKeys \cup MarkerKeys

\* dict(): headers are sets of (field, value) pairs
EmptyDict == {}
\* The header the backend reports for an object / for a locator
ObjHeader(k) == {<<"Size", Len(k)>>}
LocHeader(l) == {<<"CreationDate", 0>>}

HasObject(b, k) == b \in locs /\ \E i \in 1..Len(objs[b]) : objs[b][i] = k

\* Mutant of is_locator: trailing separators are not stripped before the
\* test, a path ending in a separator is no locator
is_locator_no_rstrip(p, relative) ==
    With(IF relative THEN p ELSE relpath(p),
         LAMBDA q : q # <<>> /\ \A i \in 1..Len(q) : q[i] # SEP)

\* SystemBase.is_locator ('' and False are both falsy: FALSE)
is_locator(p, relative) ==
    With(IF relative THEN p ELSE relpath(p),
         LAMBDA q :
            q # <<>> /\ With(rstrip(q),
                             LAMBDA stripped :
                                \A i \in 1..Len(stripped) : stripped[i] # SEP))

\* SystemBase.split_locator
split_locator(p) ==
    With(relpath(p),
         LAMBDA relative :
            With(split1(relative, <<SEP>>),
                 LAMBDA parts :
                    IF Len(parts) = 2 THEN <<parts[1], parts[2]>>
                    ELSE <<relative, <<>>>>))

\* _S3System.get_client_kwargs; Key = <<>> stands for "no Key entry"
get_client_kwargs(p) ==
    With(split_locator(p),
         LAMBDA sl : [Bucket |-> sl[1], Key |-> sl[2]])

\* _S3System._head: head_object with a Key, head_bucket without
\* (the underscore-led Python name cannot be kept: head_)
head_(kw) ==
    IF kw.Key # <<>>
    THEN IF HasObject(kw.Bucket, kw.Key)
         THEN [err |-> "none", header |-> ObjHeader(kw.Key)]
         ELSE [err |-> "NotFound", header |-> EmptyDict]
    ELSE IF kw.Bucket \in locs
         THEN [err |-> "none", header |-> LocHeader(kw.Bucket)]
         ELSE [err |-> "NotFound", header |-> EmptyDict]

\* SystemBase.head (no header, no client_kwargs given)
head(p) == With(get_client_kwargs(p), LAMBDA kw : head_(kw))

\* SystemBase.exists
exists(p) == head(p).err # "NotFound"

\* _list_locators: (name, header) of every locator
list_locators_ ==
    With(SelectSeq(LocOrder, LAMBDA l : l \in locs),
         LAMBDA ls : [i \in 1..Len(ls) |-> <<ls[i], LocHeader(ls[i])>>])

\* _handle_client_error over _ERROR_CODES: the kinds of error a failing
\* listing request of the client ends with.  AccessDenied / 403 become a
\* Permission error, any unmapped client error is raised again as it is
\* ("Server")
FaultKinds == {"Permission", "Server"}
\* No request of the client fails
NoFault == [loc |-> <<>>, kind |-> "none"]
\* The client fails every listing request on the content of locator loc
FaultChoices ==
    {NoFault} \cup {[loc |-> l, kind |-> k] : l \in LocNames, k \in FaultKinds}

\* _list_objects: the keys of the bucket that start with pth, in listing
\* order, paged until the end (max_request_entries is not a limit of the
\* listing).  A missing bucket raises Not-Found, a failing request its
\* error (fault); a backend may also raise Not-Found for a non-empty prefix
\* without entries (empty_raises).
list_objects_(kw, pth, max_request_entries, empty_raises, fault) ==
    IF kw.Bucket \notin locs THEN [err |-> "NotFound", out |-> <<>>]
    ELSE IF fault.loc = kw.Bucket THEN [err |-> fault.kind, out |-> <<>>]
    ELSE With(SelectSeq(objs[kw.Bucket], LAMBDA k : OccursAt(k, pth, 1)),
              LAMBDA hits :
                 IF hits = <<>> /\ pth # <<>> /\ empty_raises
                 THEN [err |-> "NotFound", out |-> <<>>]
                 ELSE [err |-> "none",
                       out |-> [i \in 1..Len(hits) |->
                                  <<hits[i], ObjHeader(hits[i])>>]])

\* Mutant of cut_prefix: the leading separators of the rest are kept
cut_prefix_no_lstrip(key, pth) ==
    IF pth = <<>> THEN key
    ELSE With(split1(key, pth),
              LAMBDA parts : IF Len(parts) < 2 THEN <<>> ELSE parts[2])

\* SystemBase.list_objects, "From locator or sub directory": the key with
\* the prefix cut off; empty on IndexError ("continue")
cut_prefix(key, pth) ==
    IF pth = <<>> THEN key
    ELSE With(split1(key, pth),
              LAMBDA parts : IF Len(parts) < 2 THEN <<>> ELSE lstrip(parts[2]))

\* obj_path.strip('/').split('/', 1): the first segment plus '/' when there
\* are several segments (a directory), else the path itself (ValueError)
first_level_name(obj_path) ==
    With(split1(strip(obj_path), <<SEP>>),
         LAMBDA fparts :
            IF Len(fparts) = 2 THEN fparts[1] \o <<SEP>> ELSE obj_path)

\* Whether obj_path is replaced by a directory name at first level
is_synth(obj_path) == Len(split1(strip(obj_path), <<SEP>>)) = 2

\* Mutant of list_step: no seen-set, a directory is yielded once per object
list_step_no_seen(entry, pth, first_level, seen) ==
    With(cut_prefix(entry[1], pth),
         LAMBDA obj_path :
            [yield |-> obj_path # <<>>,
             entry |-> IF first_level
                       THEN <<first_level_name(obj_path),
                              IF is_synth(obj_path) THEN EmptyDict ELSE entry[2]>>
                       ELSE <<obj_path, entry[2]>>])

\* Mutant of list_step: a synthesized directory keeps the object's header
list_step_keep_header(entry, pth, first_level, seen) ==
    With(cut_prefix(entry[1], pth),
         LAMBDA obj_path :
            With(IF first_level THEN first_level_name(obj_path) ELSE obj_path,
                 LAMBDA name :
                    [yield |-> obj_path # <<>> /\ (first_level => name \notin seen),
                     entry |-> <<name, entry[2]>>]))

\* Mutant of list_step: the parent directory (empty rest) is yielded too
list_step_keep_parent(entry, pth, first_level, seen) ==
    With(cut_prefix(entry[1], pth),
         LAMBDA obj_path :
            With(IF first_level THEN first_level_name(obj_path) ELSE obj_path,
                 LAMBDA name :
                    [yield |-> first_level => name \notin seen,
                     entry |-> <<name,
                                 IF first_level /\ is_synth(obj_path)
                                 THEN EmptyDict ELSE entry[2]>>]))

\* SystemBase.list_objects, "From locator or sub directory": the body of
\* the loop for one backend entry (key, header).  The prefix is cut off
\* the key and an empty rest skipped (it is the parent directory, or the
\* IndexError "continue"); at first level a rest of several segments
\* becomes its first segment plus '/', with an empty header, and a name
\* already seen is skipped.  Gives whether an entry is yielded, and which.
list_step(entry, pth, first_level, seen) ==
    With(cut_prefix(entry[1], pth),
         LAMBDA obj_path :
            With(IF first_level THEN first_level_name(obj_path) ELSE obj_path,
                 LAMBDA name :
                    [yield |-> obj_path # <<>> /\ (first_level => name \notin seen),
                     entry |-> <<name,
                                 IF first_level /\ is_synth(obj_path)
                                 THEN EmptyDict ELSE entry[2]>>]))

\* SystemBase.list_objects, "From locator or sub directory": the loop over
\* the backend entries from the i-th on; out is what was yielded so far
RECURSIVE list_loop(_, _, _, _, _, _)
list_loop(entries, i, pth, first_level, seen, out) ==
    IF i > Len(entries) THEN out
    ELSE With(list_step(entries[i], pth, first_level, seen),
              LAMBDA step :
                 list_loop(entries, i + 1, pth, first_level,
                           IF step.yield /\ first_level
                           THEN seen \cup {step.entry[1]} ELSE seen,
                           IF step.yield THEN Append(out, step.entry) ELSE out))

\* '/'.join((loc_path, obj_path.lstrip('/'))) for each listed object
join_locator(loc_path, entries) ==
    [j \in 1..Len(entries) |->
        <<loc_path \o <<SEP>> \o lstrip(entries[j][1]), entries[j][2]>>]

\* Mutant of list_root_loop: a Permission error ends the listing like any
\* other error
RECURSIVE list_root_loop_no_recover(_, _, _, _, _, _)
list_root_loop_no_recover(locators, i, max_request_entries, empty_raises, fault, out) ==
    IF i > Len(locators) THEN [err |-> "none", out |-> out]
    ELSE With(rstrip(locators[i][1]),
         LAMBDA loc_path :
            With(list_objects_(get_client_kwargs(loc_path), <<>>,
                               max_request_entries, empty_raises, fault),
            LAMBDA r :
               With(Append(out, <<loc_path, locators[i][2]>>)
                       \o join_locator(loc_path, r.out),
               LAMBDA yielded :
                  IF r.err = "none"
                  THEN list_root_loop_no_recover(locators, i + 1,
                                                 max_request_entries,
                                                 empty_raises, fault, yielded)
                  ELSE [err |-> r.err, out |-> yielded])))

\* SystemBase.list_objects, "From root", full tree: each locator, then its
\* objects; a Permission error on a locator's content is skipped
RECURSIVE list_root_loop(_, _, _, _, _, _)
list_root_loop(locators, i, max_request_entries, empty_raises, fault, out) ==
    IF i > Len(locators) THEN [err |-> "none", out |-> out]
    ELSE With(rstrip(locators[i][1]),
         LAMBDA loc_path :
            With(list_objects_(get_client_kwargs(loc_path), <<>>,
                               max_request_entries, empty_raises, fault),
            LAMBDA r :
               With(Append(out, <<loc_path, locators[i][2]>>)
                       \o join_locator(loc_path, r.out),
               LAMBDA yielded :
                  IF r.err \in {"none", "Permission"}
                  THEN list_root_loop(locators, i + 1, max_request_entries,
                                      empty_raises, fault, yielded)
                  ELSE [err |-> r.err, out |-> yielded])))

\* SystemBase.list_objects, "From locator or sub directory"
list_sub(path0, first_level, max_request_entries, empty_raises, fault) ==
    With(split_locator(path0),
         LAMBDA sl :
            With(list_objects_(get_client_kwargs(sl[1]), sl[2],
                               max_request_entries, empty_raises, fault),
                 LAMBDA r :
                    [err |-> r.err,
                     out |-> list_loop(r.out, 1, sl[2], first_level, {}, <<>>)]))

\* SystemBase.list_objects: what the generator yields, and the error that
\* ends it ("none": it ends normally)
list_objects(p, relative, first_level, max_request_entries, empty_raises, fault) ==
    With(IF relative THEN p ELSE relpath(p),
         LAMBDA path0 :
            IF path0 = <<>>
            THEN IF first_level THEN [err |-> "none", out |-> list_locators_]
                 ELSE list_root_loop(list_locators_, 1, max_request_entries,
                                     empty_raises, fault, <<>>)
            ELSE list_sub(path0, first_level, max_request_entries, empty_raises,
                          fault))

\* SystemBase.isdir, the virtual directory probe: next() on the listing; a
\* first entry gives True, StopIteration and Not-Found give False
virtual_dir(relative, empty_raises) ==
    list_objects(relative, TRUE, FALSE, 1, empty_raises, NoFault).out # <<>>

\* Mutant of isdir: the empty relative path is not special-cased
isdir_no_root_case(p, empty_raises) ==
    With(relpath(p),
         LAMBDA relative :
            IF p # <<>> /\ (p[Len(p)] = SEP \/ is_locator(relative, TRUE))
            THEN IF exists(p) THEN [val |-> TRUE, calls |-> <<"head">>]
                 ELSE [val |-> virtual_dir(relative, empty_raises),
                       calls |-> <<"head", "list">>]
            ELSE [val |-> FALSE, calls |-> <<>>])

\* Mutant of isdir: no virtual directory probe
isdir_no_virtual(p, empty_raises) ==
    With(relpath(p),
         LAMBDA relative :
            IF relative = <<>> THEN [val |-> TRUE, calls |-> <<>>]
            ELSE IF p[Len(p)] = SEP \/ is_locator(relative, TRUE)
            THEN [val |-> exists(p), calls |-> <<"head">>]
            ELSE [val |-> FALSE, calls |-> <<>>])

\* SystemBase.isdir (virtual_dir = True): the value returned and the
\* backend calls issued
isdir(p, empty_raises) ==
    With(relpath(p),
         LAMBDA relative :
            IF relative = <<>> THEN [val |-> TRUE, calls |-> <<>>]
            ELSE IF p[Len(p)] = SEP \/ is_locator(relative, TRUE)
            THEN IF exists(p) THEN [val |-> TRUE, calls |-> <<"head">>]
                 ELSE [val |-> virtual_dir(relative, empty_raises),
                       calls |-> <<"head", "list">>]
            ELSE [val |-> FALSE, calls |-> <<>>])

\* SystemBase.isfile
isfile(p) ==
    With(relpath(p),
         LAMBDA relative :
            IF relative = <<>> THEN [val |-> FALSE, calls |-> <<>>]
            ELSE IF p[Len(p)] # SEP /\ ~is_locator(p, TRUE)
            THEN [val |-> exists(p), calls |-> <<"head">>]
            ELSE [val |-> FALSE, calls |-> <<>>])

(***************************************************************************)
(* SpecSys: a store built by backend writes, then one System call.         *)
(***************************************************************************)
\* Relative paths handed to the System calls: the locators, every key of
\* locator "a" (markers are the directory paths), a path in locator "b"
RelQueries ==
    {<<"a">>, <<"a", SEP>>, <<"b">>, <<"b", SEP>>, <<"b", SEP, "a">>,
     <<"b", SEP, "a", SEP>>}
    \cup {<<"a", SEP>> \o k : k \in Keys}

\* Paths that name the storage root
RootQueries ==
    {<<>>, <<SEP>>, LiteralRoot.text, LiteralRoot.text \o <<SEP>>,
     LiteralRoot.text \o <<SEP, SEP>>, <<"h", "a", ":">>, <<"h", "a", ":", SEP>>}

\* Paths given as URLs ('/'.join((root, locator)), root + path)
UrlQueries ==
    {LiteralRoot.text \o <<SEP>> \o r :
        r \in {<<"a">>, <<"a", SEP>>, <<"a", SEP, "a">>, <<"a", SEP, "a", SEP>>,
               <<"b">>}}

SysPaths == RootQueries \cup RelQueries \cup UrlQueries

InitSys ==
    /\ path = <<>>
    /\ res = <<>>
    /\ locs = {<<"a">>}
    /\ objs = [l \in LocNames |-> <<>>]
    /\ call = NoCall
    /\ IoInit(<<>>)
    /\ ClientInit
    /\ CacheInit

\* _S3System._make_dir on a locator: create_bucket
MakeLocator(l) ==
    /\ call = NoCall
    /\ l \notin locs
    /\ locs' = locs \cup {l}
    /\ UNCHANGED <<objs, pathVars, clientVars, cacheVars, call, ioVars>>

\* put_object (S3RawIO._flush, _S3System._make_dir on a key)
PutObject(l, k) ==
    /\ call = NoCall
    /\ l \in locs
    /\ Len(objs[l]) < MaxKeys
    /\ ~HasObject(l, k)
    /\ objs' = [objs EXCEPT ![l] = Append(@, k)]
    /\ UNCHANGED <<locs, pathVars, clientVars, cacheVars, call, ioVars>>

IsDir(p, er) ==
    /\ call = NoCall
    /\ call' = With(isdir(p, er),
                     LAMBDA r :
                        [op |-> "isdir", path |-> p, first_level |-> FALSE,
                         val |-> r.val, calls |-> r.calls, err |-> "none",
                         out |-> <<>>, max_request_entries |-> 0,
                         fault |-> NoFault])
    /\ UNCHANGED <<locs, objs, pathVars, clientVars, cacheVars, ioVars>>

IsFile(p) ==
    /\ call = NoCall
    /\ call' = With(isfile(p),
                     LAMBDA r :
                        [op |-> "isfile", path |-> p, first_level |-> FALSE,
                         val |-> r.val, calls |-> r.calls, err |-> "none",
                         out |-> <<>>, max_request_entries |-> 0,
                         fault |-> NoFault])
    /\ UNCHANGED <<locs, objs, pathVars, clientVars, cacheVars, ioVars>>

\* list(system.list_objects(p, first_level=fl, max_request_entries=n)),
\* n = 0 standing for None
ListObjects(p, fl, er, n, f) ==
    /\ call = NoCall
    /\ call' = With(list_objects(p, FALSE, fl, n, er, f),
                     LAMBDA r :
                        [op |-> "list_objects", path |-> p, first_level |-> fl,
                         val |-> FALSE, calls |-> <<>>, err |-> r.err,
                         out |-> r.out, max_request_entries |-> n,
                         fault |-> f])
    /\ UNCHANGED <<locs, objs, pathVars, clientVars, cacheVars, ioVars>>

NextSys ==
    \/ \E l \in LocNames : MakeLocator(l)
    \/ \E l \in DataLocs, k \in Keys : PutObject(l, k)
    \/ \E p \in SysPaths, er \in BOOLEAN : IsDir(p, er)
    \/ \E p \in SysPaths : IsFile(p)
    \/ \E p \in SysPaths, fl \in BOOLEAN, er \in BOOLEAN :
          ListObjects(p, fl, er, 0, NoFault)

SpecSys == InitSys /\ [][NextSys]_vars

\* All the keys the store holds
StoredKeys(l) == {objs[l][i] : i \in 1..Len(objs[l])}
\* The store holds no explicit directory marker
NoMarkers == \A l \in LocNames : \A k \in StoredKeys(l) : k[Len(k)] # SEP

\* C3: for every path whose relative path is empty, isdir returns true and
\* isfile returns false, in every backend state, without any backend call.
C3_RootIsDirNotFile ==
    (call.op \in {"isdir", "isfile"} /\ relpath(call.path) = <<>>)
    => /\ call.val = (call.op = "isdir")
       /\ call.calls = <<>>

\* isdir was asked about a root given as an URL, on a store holding objects
C3_Witness ==
    /\ call.op = "isdir"
    /\ call.path = LiteralRoot.text \o <<SEP>>
    /\ relpath(call.path) = <<>>
    /\ objs[<<"a">>] # <<>>
    /\ call.val

\* The call was isdir(d), d ending in a separator, inside an existing
\* locator (it names a key prefix of that locator), on a store without
\* directory markers
C4_Case ==
    /\ call.op = "isdir"
    /\ NoMarkers
    /\ call.path # <<>>
    /\ call.path[Len(call.path)] = SEP
    /\ split_locator(call.path)[1] \in locs
    /\ split_locator(call.path)[2] # <<>>

\* C4: on a store with no directory markers, for every path d ending in a
\* separator inside an existing locator, isdir(d) is true iff at least one
\* stored key has d as a prefix.
C4_VirtualDirFallback ==
    C4_Case
    => (call.val <=> \E k \in StoredKeys(split_locator(call.path)[1]) :
                        OccursAt(k, split_locator(call.path)[2], 1))

\* isdir found a directory that exists only as the prefix of a key, by the
\* listing probe that follows the failed existence check
C4_Witness ==
    /\ C4_Case
    /\ call.val
    /\ call.calls = <<"head", "list">>

\* The key prefix that names the directory pth inside its locator
DirPrefix(pth) ==
    IF pth = <<>> \/ pth[Len(pth)] = SEP THEN pth ELSE pth \o <<SEP>>

\* The key k lies under the directory pth
Under(k, pth) ==
    OccursAt(k, DirPrefix(pth), 1) /\ Len(k) > Len(DirPrefix(pth))

\* The immediate child of pth on the way to k: the remainder of k when it
\* has one segment, else its first segment plus a trailing separator
ChildOf(k, pth) ==
    With(Drop(k, Len(DirPrefix(pth)) + 1),
         LAMBDA rem :
            With(Find(rem, <<SEP>>),
                 LAMBDA i : IF i = 0 THEN rem ELSE SubSeq(rem, 1, i)))

\* Index of the first stored key under pth whose immediate child is name
FirstKeyOf(keys, pth, name) ==
    CHOOSE i \in 1..Len(keys) :
        /\ Under(keys[i], pth) /\ ChildOf(keys[i], pth) = name
        /\ \A j \in 1..(i - 1) :
              ~(Under(keys[j], pth) /\ ChildOf(keys[j], pth) = name)

\* What a first-level listing of pth over keys has to yield: the distinct
\* immediate children, once each, in first-encountered order, a child
\* synthesized from a longer key with an empty header
FirstLevelOk(keys, pth, out) ==
    /\ {out[i][1] : i \in 1..Len(out)}
         = {ChildOf(keys[j], pth) : j \in {n \in 1..Len(keys) : Under(keys[n], pth)}}
    /\ \A i, j \in 1..Len(out) : out[i][1] = out[j][1] => i = j
    /\ \A i, j \in 1..Len(out) :
          i < j => FirstKeyOf(keys, pth, out[i][1]) < FirstKeyOf(keys, pth, out[j][1])
    /\ \A i \in 1..Len(out) :
          Len(keys[FirstKeyOf(keys, pth, out[i][1])]) > Len(DirPrefix(pth) \o out[i][1])
          => out[i][2] = EmptyDict

\* The call was a first-level listing under a locator or sub-directory that
\* ended without error
C5_Case ==
    /\ call.op = "list_objects"
    /\ call.first_level
    /\ relpath(call.path) # <<>>
    /\ call.err = "none"

\* C5: list_objects(path, first_level=True) under a locator or
\* sub-directory yields exactly the distinct immediate children of the
\* path, each name once, in first-encountered order, synthesized directory
\* entries carrying an empty header.
C5_FirstLevelChildren ==
    C5_Case
    => FirstLevelOk(objs[split_locator(call.path)[1]],
                    split_locator(call.path)[2], call.out)

\* The same for the paths that name the directory as a key prefix (a
\* locator, or a path ending in a separator); this holds
C5_FirstLevelChildrenOfPrefix ==
    (C5_Case /\ DirPrefix(split_locator(call.path)[2]) = split_locator(call.path)[2])
    => FirstLevelOk(objs[split_locator(call.path)[1]],
                    split_locator(call.path)[2], call.out)

\* A locator holding "a/a", "ab", "a/ab" in that order was listed at first
\* level: the directory "a/" is yielded once, before "ab"
C5_PrefixWitness ==
    /\ C5_Case
    /\ call.path = <<"a">>
    /\ objs[<<"a">>] = << <<"a", SEP, "a">>, <<"a", "b">>, <<"a", SEP, "a", "b">> >>
    /\ call.out = << << <<"a", SEP>>, EmptyDict >>,
                     << <<"a", "b">>, ObjHeader(<<"a", "b">>) >> >>


\* The keys of locator l that the backend returns for the prefix pth
ListedKeys(l, pth) == {k \in StoredKeys(l) : OccursAt(k, pth, 1)}

\* The call was a listing of a path below an existing locator (not the
\* root, not a locator) for which the backend has no entry
C11_Case ==
    /\ call.op = "list_objects"
    /\ split_locator(call.path)[1] \in locs
    /\ split_locator(call.path)[2] # <<>>
    /\ ListedKeys(split_locator(call.path)[1], split_locator(call.path)[2]) = {}

\* C11: list_objects on a path that is neither the root nor a locator, and
\* under which the backend returns no entry, ends with Not-Found.
C11_ZeroEntriesNotFound == C11_Case => call.err = "NotFound"

\* The call was a listing of a directory of which the backend holds the
\* marker (the key that is the directory's own path) and nothing else
C12_Case ==
    /\ call.op = "list_objects"
    /\ split_locator(call.path)[1] \in locs
    /\ split_locator(call.path)[2] # <<>>
    /\ ListedKeys(split_locator(call.path)[1], split_locator(call.path)[2])
          = {DirPrefix(split_locator(call.path)[2])}

\* C12: listing an existing directory that holds nothing but its own
\* directory marker yields no entry and does not fail: the marker (empty
\* rest after the prefix is cut off) is skipped, no Not-Found is raised.
C12_MarkerOnlyListsEmpty ==
    C12_Case => (call.err = "none" /\ call.out = <<>>)

\* The directory "a/a/" of locator "a", made by its marker beside another
\* object of the locator, was listed
C12_Witness ==
    /\ C12_Case
    /\ call.path = <<"a", SEP, "a", SEP>>
    /\ <<"a", "b">> \in StoredKeys(<<"a">>)
    /\ call.out = <<>>
    /\ call.err = "none"


\* The call was a full (not first-level) listing of a sub-path of a
\* locator that ended without error
C26_Case ==
    /\ call.op = "list_objects"
    /\ ~call.first_level
    /\ split_locator(call.path)[2] # <<>>
    /\ call.err = "none"

\* The key k of the backend with the prefix pth removed and the leading
\* separators stripped
NameUnder(k, pth) == lstrip(Drop(k, Len(pth) + 1))

\* The names a full listing of pth has to yield over the keys: one for each
\* key that starts with pth and has a non-empty name under it, in the order
\* of the backend
NamesUnder(keys, pth) ==
    With(SelectSeq(keys, LAMBDA k : OccursAt(k, pth, 1) /\ NameUnder(k, pth) # <<>>),
         LAMBDA ks : [i \in 1..Len(ks) |-> NameUnder(ks[i], pth)])

\* C26: a full listing of a sub-path p of a locator yields, for each key of
\* the backend, the key with the prefix p removed and leading separators
\* stripped; the entry whose remainder is empty (the parent directory
\* marker) is not yielded, every other key under p yields exactly one entry.
C26_PrefixStrippedOncePerKey ==
    C26_Case
    => [i \in 1..Len(call.out) |-> call.out[i][1]]
         = NamesUnder(objs[split_locator(call.path)[1]], split_locator(call.path)[2])

\* The directory "a" of locator "a", named without trailing separator, was
\* listed over its marker "a/" and the object "a/a": the marker is skipped,
\* the object yields "a"
C26_Witness ==
    /\ C26_Case
    /\ call.path = <<"a", SEP, "a">>
    /\ objs[<<"a">>] = << <<"a", SEP>>, <<"a", SEP, "a">> >>
    /\ call.out = << << <<"a">>, ObjHeader(<<"a", SEP, "a">>) >> >>


\* C27: isdir and isfile are mutually exclusive: for every path, relative
\* or given as an URL, and every backend state, they are never both true; a
\* path that names an existing locator is never reported as a file.
C27_DirFileExclusive ==
    (call.op = "isfile" /\ call.val)
    => /\ \A er \in BOOLEAN : ~isdir(call.path, er).val
       /\ ~(NamesLocator(relpath(call.path))
              /\ rstrip(relpath(call.path)) \in locs)

\* The same for the paths given relative (no root to strip); this holds
C27_DirFileExclusiveRelative ==
    (call.op = "isfile" /\ call.val /\ relpath(call.path) = call.path)
    => /\ \A er \in BOOLEAN : ~isdir(call.path, er).val
       /\ ~(NamesLocator(call.path) /\ rstrip(call.path) \in locs)

\* isfile was true of an object given by its relative path
C27_RelativeWitness ==
    /\ call.op = "isfile"
    /\ call.val
    /\ call.path = <<"a", SEP, "a">>

\* The call was a listing of a path inside a locator that ended without
\* error
C29_Case ==
    /\ call.op = "list_objects"
    /\ split_locator(call.path)[2] # <<>>
    /\ call.err = "none"

\* The yielded name denotes an object under the directory pth of locator l:
\* pth joined to the name with a separator is a key of the backend (for a
\* directory synthesized at first level, the prefix of one)
DenotesUnder(l, pth, name) ==
    \E k \in StoredKeys(l) : OccursAt(k, DirPrefix(pth) \o name, 1)
                             /\ (~call.first_level => k = DirPrefix(pth) \o name)

\* C29: every name yielded by list_objects for a path p inside a locator
\* denotes an object under directory p: p joined with the name by a
\* separator is a key the backend holds; no entry comes from a sibling key
\* such as "dir2/file" for "dir".
C29_YieldedUnderDirectory ==
    C29_Case
    => \A i \in 1..Len(call.out) :
          DenotesUnder(split_locator(call.path)[1], split_locator(call.path)[2],
                       call.out[i][1])

\* The same for the paths that name the directory as a key prefix (ending in
\* a separator); this holds
C29_YieldedUnderPrefix ==
    (C29_Case /\ DirPrefix(split_locator(call.path)[2]) = split_locator(call.path)[2])
    => \A i \in 1..Len(call.out) :
          DenotesUnder(split_locator(call.path)[1], split_locator(call.path)[2],
                       call.out[i][1])


(***************************************************************************)
(* SpecList: one listing of a store that holds objects in every locator,   *)
(* with a limit of entries per request and a client whose listing requests *)
(* on one locator fail.                                                    *)
(***************************************************************************)
\* Largest max_request_entries handed to list_objects (0 stands for None)
MaxRequest == 1

\* The orders in which a locator can hold the keys S
Orderings(S) ==
    {q \in [1..Cardinality(S) -> S] :
        \A i, j \in 1..Cardinality(S) : q[i] = q[j] => i = j}
\* What a locator can hold
Listings == UNION {Orderings(S) : S \in SUBSET Segs}

\* The paths listed: the root (as a path and as an URL), the locators, the
\* content of a locator, a key prefix inside a locator
ListPaths ==
    {<<>>, LiteralRoot.text \o <<SEP>>, <<"a">>, <<"b">>, <<"a", SEP>>,
     <<"b", SEP, "a">>}

InitList ==
    /\ path = <<>>
    /\ res = <<>>
    /\ locs \in SUBSET LocNames
    /\ objs \in [LocNames -> Listings]
    /\ \A l \in LocNames \ locs : objs[l] = <<>>
    /\ call = NoCall
    /\ IoInit(<<>>)
    /\ ClientInit
    /\ CacheInit

NextList ==
    \E p \in ListPaths, fl \in BOOLEAN, er \in BOOLEAN, n \in 0..MaxRequest,
       f \in FaultChoices :
       ListObjects(p, fl, er, n, f)

SpecList == InitList /\ [][NextList]_vars

\* The names the listing yielded
YieldedNames == {call.out[i][1] : i \in 1..Len(call.out)}
\* The names under which a root listing yields the objects of locator l
ContentNames(l) == {l \o <<SEP>> \o k : k \in StoredKeys(l)}

\* The call was a recursive listing from the root during which the
\* client failed the listing of the content of an existing locator
C13_Case ==
    /\ call.op = "list_objects"
    /\ relpath(call.path) = <<>>
    /\ ~call.first_level
    /\ call.fault.loc \in locs

\* C13: during a recursive listing from the root only a Permission error
\* is recovered: when the listing of locator L is denied, L has been
\* yielded, the caller sees no error, and every other locator is yielded
\* with its content; any other error of the listing reaches the caller.
C13_OnlyPermissionRecovered ==
    C13_Case
    => IF call.fault.kind = "Permission"
       THEN /\ call.err = "none"
            /\ locs \subseteq YieldedNames
            /\ \A l \in locs \ {call.fault.loc} :
                   ContentNames(l) \subseteq YieldedNames
            /\ ContentNames(call.fault.loc) \cap YieldedNames = {}
       ELSE call.err = call.fault.kind

\* The listing of locator "a", which holds objects, was denied: "a" was
\* yielded, then the later locator "b" with its object, without error
C13_Witness ==
    /\ C13_Case
    /\ call.fault = [loc |-> <<"a">>, kind |-> "Permission"]
    /\ objs[<<"a">>] # <<>>
    /\ call.err = "none"
    /\ call.out = << << <<"a">>, LocHeader(<<"a">>) >>,
                     << <<"b">>, LocHeader(<<"b">>) >>,
                     << <<"b", SEP, "a">>, ObjHeader(<<"a">>) >> >>


\* The number of objects held by the first i locators of LocOrder
RECURSIVE ObjectCount(_)
ObjectCount(i) ==
    IF i = 0 THEN 0 ELSE Len(objs[LocOrder[i]]) + ObjectCount(i - 1)

\* The number of entries the store holds for the listing of the call: the
\* locators (and, for the full tree, their objects) from the root, the
\* objects of the locator for a locator
C20_Entries ==
    IF relpath(call.path) = <<>>
    THEN Cardinality(locs)
         + (IF call.first_level THEN 0 ELSE ObjectCount(Len(LocOrder)))
    ELSE Len(objs[split_locator(call.path)[1]])

\* The call was a listing from the root or of a locator, limited to n
\* entries, of a store that holds at least n entries for it, and no
\* request failed
C20_Case ==
    /\ call.op = "list_objects"
    /\ call.max_request_entries > 0
    /\ call.fault = NoFault
    /\ relpath(call.path) = <<>>
          \/ (is_locator(call.path, FALSE) /\ ~call.first_level
                /\ split_locator(call.path)[1] \in locs)
    /\ C20_Entries >= call.max_request_entries

\* C20: list_objects with max_request_entries = n, on a store that holds at
\* least n entries, yields exactly n entries, also from the storage root.
C20_YieldsExactlyMaxEntries ==
    C20_Case => Len(call.out) = call.max_request_entries


(***************************************************************************)
(* SpecStat: the object header and what SystemBase reads from it.  A       *)
(* header is a dict given by the caller (head returns it as it is): a      *)
(* sequence of (field, value) pairs in the order of the dict, each field   *)
(* once.  Field names are str, sequences of characters.                    *)
(***************************************************************************)
Upper == <<"A", "B", "C", "D", "E", "F", "G", "H", "I", "J", "K", "L", "M", "N", "O", "P", "Q", "R", "S", "T", "U", "V", "W", "X", "Y", "Z">>
Lower == <<"a", "b", "c", "d", "e", "f", "g", "h", "i", "j", "k", "l", "m", "n", "o", "p", "q", "r", "s", "t", "u", "v", "w", "x", "y", "z">>
Digits == {"0", "1", "2", "3", "4", "5", "6", "7", "8", "9"}

\* str.lower, of one character and of a str
lower_char(c) ==
    IF \E i \in 1..Len(Upper) : Upper[i] = c
    THEN Lower[CHOOSE i \in 1..Len(Upper) : Upper[i] = c]
    ELSE c
lower(s) == [i \in 1..Len(s) |-> lower_char(s[i])]

\* _CHAR_FILTER.sub('', s): every character outside a-z0-9 is removed
CHAR_FILTER_sub(s) ==
    SelectSeq(s, LAMBDA c : (\E i \in 1..Len(Lower) : Lower[i] = c) \/ c \in Digits)

\* 'st_' + sub('', key.lower())
st_name(key) == <<"s", "t", "_">> \o CHAR_FILTER_sub(lower(key))

\* dict: key in d, d[key], d.pop(key) / what is left of d, d[key] = value
has_key(d, key) == \E i \in 1..Len(d) : d[i][1] = key
get_item(d, key) == d[CHOOSE i \in 1..Len(d) : d[i][1] = key][2]
pop(d, key) == SelectSeq(d, LAMBDA e : e[1] # key)
set_item(d, key, value) ==
    IF has_key(d, key)
    THEN [i \in 1..Len(d) |-> IF d[i][1] = key THEN <<key, value>> ELSE d[i]]
    ELSE Append(d, <<key, value>>)

\* Header fields: the candidates of the base class, and fields a backend
\* reports besides
ContentLength == <<"C", "o", "n", "t", "e", "n", "t", "-", "L", "e", "n", "g", "t", "h">>
LastModified == <<"L", "a", "s", "t", "-", "M", "o", "d", "i", "f", "i", "e", "d">>
Size == <<"S", "i", "z", "e">>
ETag == <<"E", "T", "a", "g">>
XETag == <<"x", "-", "e", "-", "t", "a", "g">>
Mode == <<"M", "o", "d", "e">>
FieldNames == {ContentLength, LastModified, Size, ETag, XETag, Mode}
\* The fields a backend declares as candidates for the size or a time
CandidateNames == {ContentLength, LastModified, Size}
\* Values of header fields (numbers: sizes, timestamps, tags)
FieldValues == {0, 3}

\* _SIZE_KEYS, _CTIME_KEYS, _MTIME_KEYS of SystemBase
SIZE_KEYS == <<ContentLength>>
CTIME_KEYS == <<>>
MTIME_KEYS == <<LastModified>>

\* stat.S_IFDIR, stat.S_IFREG
S_IFDIR == 16384
S_IFREG == 32768

\* Most fields of a header, most candidate fields a backend declares
MaxFields == 2
MaxCandidates == 2

\* Sequences of at most n elements of S, each at most once
DistinctSeqs(S, n) ==
    UNION {{q \in [1..m -> S] : \A i, j \in 1..m : q[i] = q[j] => i = j} :
              m \in 0..n}
\* The headers: dicts of at most MaxFields fields
Headers ==
    {h \in DistinctSeqs(FieldNames \X FieldValues, MaxFields) :
        \A i, j \in 1..Len(h) : h[i][1] = h[j][1] => i = j}
\* The candidate lists a backend can declare
KeyLists == DistinctSeqs(CandidateNames, MaxCandidates)

\* Mutant of getsize_loop: the last candidate present wins
RECURSIVE getsize_loop_last(_, _, _)
getsize_loop_last(header, keys, i) ==
    IF i > Len(keys) THEN [err |-> "Unsupported", val |-> 0, header |-> header]
    ELSE With(getsize_loop_last(header, keys, i + 1),
              LAMBDA later :
                 IF later.err = "none" \/ ~has_key(header, keys[i]) THEN later
                 ELSE [err |-> "none", val |-> get_item(header, keys[i]),
                       header |-> pop(header, keys[i])])

\* SystemBase._getsize_from_header, the loop from the i-th candidate of
\* _SIZE_KEYS (keys) on: the first candidate in the header is popped and
\* returned, a missing one skipped (KeyError), Unsupported after the last.
\* Gives the error, the value and the header afterwards.
RECURSIVE getsize_loop(_, _, _)
getsize_loop(header, keys, i) ==
    IF i > Len(keys) THEN [err |-> "Unsupported", val |-> 0, header |-> header]
    ELSE IF has_key(header, keys[i])
    THEN [err |-> "none", val |-> get_item(header, keys[i]),
          header |-> pop(header, keys[i])]
    ELSE getsize_loop(header, keys, i + 1)

\* SystemBase._getsize_from_header of a backend whose _SIZE_KEYS is keys
getsize_from_header(header, keys) == getsize_loop(header, keys, 1)

\* SystemBase._get_time, the loop from the i-th key on; the value is a
\* number already (parse raises TypeError, float(date_value) is returned)
RECURSIVE get_time_loop(_, _, _)
get_time_loop(header, keys, i) ==
    IF i > Len(keys) THEN [err |-> "Unsupported", val |-> 0, header |-> header]
    ELSE IF has_key(header, keys[i])
    THEN [err |-> "none", val |-> get_item(header, keys[i]),
          header |-> pop(header, keys[i])]
    ELSE get_time_loop(header, keys, i + 1)

\* SystemBase._get_time
get_time(header, keys, name) == get_time_loop(header, keys, 1)

\* The OrderedDict stat starts with: the strict minimum of os.stat_result
StandardNames ==
    <<<<"m", "o", "d", "e">>, <<"i", "n", "o">>, <<"d", "e", "v">>, <<"n", "l", "i", "n", "k">>, <<"u", "i", "d">>, <<"g", "i", "d">>, <<"s", "i", "z", "e">>, <<"a", "t", "i", "m", "e">>, <<"m", "t", "i", "m", "e">>, <<"c", "t", "i", "m", "e">>>>
stat_minimum == [i \in 1..Len(StandardNames) |-> <<st_name(StandardNames[i]), 0>>]

\* SystemBase.stat, "Add storage specific keys": the items of the header
\* from the i-th on are stored under their normalized names
RECURSIVE publish(_, _, _)
publish(st, header, i) ==
    IF i > Len(header) THEN st
    ELSE publish(set_item(st, st_name(header[i][1]), header[i][2]), header, i + 1)

\* stat[key] = int(method(header)), unless the method raised Unsupported
set_unless_unsupported(st, key, r) ==
    IF r.err = "none" THEN set_item(st, key, r.val) ELSE st

\* Mutant of file_mode: an empty path is not taken for a directory
file_mode_no_empty_path(p, st_size) ==
    IF ((p # <<>> /\ p[Len(p)] = SEP) \/ is_locator(p, FALSE)) /\ st_size = 0
    THEN S_IFDIR ELSE S_IFREG

\* SystemBase.stat, "File mode"
file_mode(p, st_size) ==
    IF (p = <<>> \/ p[Len(p)] = SEP \/ is_locator(p, FALSE)) /\ st_size = 0
    THEN S_IFDIR ELSE S_IFREG

\* SystemBase.stat with the header given: the stat_result as a dict, and
\* the header afterwards
stat(p, header) ==
    With(getsize_from_header(header, SIZE_KEYS),
    LAMBDA s :
       With(get_time(s.header, CTIME_KEYS, "getctime"),
       LAMBDA c :
          With(get_time(c.header, MTIME_KEYS, "getmtime"),
          LAMBDA m :
             With(set_unless_unsupported(
                     set_unless_unsupported(
                        set_unless_unsupported(stat_minimum,
                                               st_name(<<"s", "i", "z", "e">>), s),
                        st_name(<<"c", "t", "i", "m", "e">>), c),
                     st_name(<<"m", "t", "i", "m", "e">>), m),
             LAMBDA st :
                [header |-> m.header,
                 stat |-> publish(
                    set_item(st, st_name(<<"m", "o", "d", "e">>),
                             file_mode(p, get_item(st, st_name(<<"s", "i", "z", "e">>)))),
                    m.header, 1)]))))

\* The paths stat is asked about: the root, a locator, objects and
\* directories inside a locator, as paths and as an URL
StatPaths ==
    {<<>>, <<"a">>, <<"a", SEP>>, <<"a", SEP, "a">>, <<"a", SEP, "a", SEP>>,
     LiteralRoot.text \o <<SEP, "a">>}

InitStat ==
    /\ path = <<>>
    /\ res = <<>>
    /\ locs = {}
    /\ objs = [l \in LocNames |-> <<>>]
    /\ call = NoCall
    /\ IoInit(<<>>)
    /\ ClientInit
    /\ CacheInit

\* system.stat(p, header=h)
Stat(p, h) ==
    /\ call = NoCall
    /\ call' = With(stat(p, h),
                     LAMBDA r :
                        [op |-> "stat", path |-> p, keys |-> <<>>, given |-> h,
                         header |-> r.header, err |-> "none", val |-> 0,
                         stat |-> r.stat])
    /\ UNCHANGED <<locs, objs, pathVars, clientVars, cacheVars, ioVars>>

\* system.getsize(header=h) on a backend whose _SIZE_KEYS is keys
GetSize(h, keys) ==
    /\ call = NoCall
    /\ call' = With(getsize_from_header(h, keys),
                     LAMBDA r :
                        [op |-> "getsize", path |-> <<>>, keys |-> keys,
                         given |-> h, header |-> r.header, err |-> r.err,
                         val |-> r.val, stat |-> <<>>])
    /\ UNCHANGED <<locs, objs, pathVars, clientVars, cacheVars, ioVars>>

\* system.getctime(header=h), system.getmtime(header=h) on a backend whose
\* _CTIME_KEYS, _MTIME_KEYS is keys
GetTime(h, keys, name) ==
    /\ call = NoCall
    /\ call' = With(get_time(h, keys, name),
                     LAMBDA r :
                        [op |-> name, path |-> <<>>, keys |-> keys,
                         given |-> h, header |-> r.header, err |-> r.err,
                         val |-> r.val, stat |-> <<>>])
    /\ UNCHANGED <<locs, objs, pathVars, clientVars, cacheVars, ioVars>>

\* One call on a new System (tested before the arguments are drawn)
NextStat ==
    \/ call = NoCall /\ \E p \in StatPaths, h \in Headers : Stat(p, h)
    \/ call = NoCall /\ \E h \in Headers, keys \in KeyLists : GetSize(h, keys)
    \/ call = NoCall
          /\ \E h \in Headers, keys \in KeyLists, name \in {"getctime", "getmtime"} :
                GetTime(h, keys, name)

SpecStat == InitStat /\ [][NextStat]_vars

\* C14: stat reports a directory iff no size was resolved from the header
\* and the path ends in a separator or is a locator; in every other case
\* it reports a regular file.
C14_DirectoryIffNoSize ==
    call.op = "stat"
    => get_item(call.stat, st_name(<<"m", "o", "d", "e">>))
         = IF /\ \A i \in 1..Len(SIZE_KEYS) : ~has_key(call.given, SIZE_KEYS[i])
              /\ \/ (call.path # <<>> /\ call.path[Len(call.path)] = SEP)
                 \/ is_locator(call.path, FALSE)
           THEN S_IFDIR ELSE S_IFREG

\* The header fields left after size, ctime and mtime were taken that are
\* stored as st_mode, by position
C14_ModeFields ==
    {i \in 1..Len(call.header) :
        st_name(call.header[i][1]) = st_name(<<"m", "o", "d", "e">>)}

\* C14 as the code has it: stat reports a directory iff the size taken
\* from the header is zero or no size was resolved, and the path is empty,
\* ends in a separator or is a locator; in every other case it reports a
\* regular file.  A header field stored as st_mode, if there is one,
\* replaces the mode by its value.
C14_DirectoryIffZeroOrNoSize ==
    call.op = "stat"
    => get_item(call.stat, st_name(<<"m", "o", "d", "e">>))
         = IF C14_ModeFields # {}
           THEN call.header[CHOOSE i \in C14_ModeFields :
                               \A j \in C14_ModeFields : j <= i][2]
           ELSE IF /\ \A i \in 1..Len(SIZE_KEYS) :
                        has_key(call.given, SIZE_KEYS[i])
                        => get_item(call.given, SIZE_KEYS[i]) = 0
                   /\ \/ call.path = <<>>
                      \/ call.path[Len(call.path)] = SEP
                      \/ is_locator(call.path, FALSE)
                THEN S_IFDIR ELSE S_IFREG

\* stat of a directory path with a header that resolves the size 0 (a
\* directory marker) reported a directory
C14_Witness ==
    /\ call.op = "stat"
    /\ call.path = <<"a", SEP, "a", SEP>>
    /\ call.given = << <<ContentLength, 0>> >>
    /\ get_item(call.stat, st_name(<<"s", "i", "z", "e">>)) = 0
    /\ get_item(call.stat, st_name(<<"m", "o", "d", "e">>)) = S_IFDIR

\* C15: stat exposes every header field that was not consumed as size,
\* ctime or mtime exactly once under its normalized name, and no two
\* fields, nor a field and a standard attribute, share a normalized name:
\* no header value is dropped or overwrites another.
C15_ExtendedAttributesNoCollision ==
    call.op = "stat"
    => /\ \A i \in 1..Len(call.header) :
             /\ has_key(call.stat, st_name(call.header[i][1]))
             /\ get_item(call.stat, st_name(call.header[i][1])) = call.header[i][2]
       /\ \A i, j \in 1..Len(call.header) :
             st_name(call.header[i][1]) = st_name(call.header[j][1]) => i = j
       /\ \A i \in 1..Len(call.header), n \in 1..Len(StandardNames) :
             st_name(call.header[i][1]) # st_name(StandardNames[n])

\* The candidates of the call that the given header holds, by position
C16_Present == {i \in 1..Len(call.keys) : has_key(call.given, call.keys[i])}
C16_First == CHOOSE i \in C16_Present : \A j \in C16_Present : i <= j

\* C16: getsize, getctime and getmtime take the value of the first
\* candidate field, in declared order, that the header holds; exactly
\* that field is removed and every other field stays as it was; with no
\* candidate in the header the call fails with Unsupported and the header
\* is unchanged.
C16_FirstCandidateConsumed ==
    call.op \in {"getsize", "getctime", "getmtime"}
    => IF C16_Present = {}
       THEN call.err = "Unsupported" /\ call.header = call.given
       ELSE /\ call.err = "none"
            /\ call.val = get_item(call.given, call.keys[C16_First])
            /\ ~has_key(call.header, call.keys[C16_First])
            /\ call.header
                  = SelectSeq(call.given, LAMBDA e : e[1] # call.keys[C16_First])

\* getsize on a header holding both declared candidates, the second
\* declared one first: the first declared candidate was taken, the other
\* one is still in the header
C16_Witness ==
    /\ call.op = "getsize"
    /\ call.keys = <<Size, ContentLength>>
    /\ call.given = << <<ContentLength, 0>>, <<Size, 3>> >>
    /\ call.val = 3
    /\ call.header = << <<ContentLength, 0>> >>


(***************************************************************************)
(* SpecBase: a System whose backend keeps the operations of SystemBase     *)
(* that a backend may override: _make_dir, _remove, copy, _list_locators   *)
(* and _list_objects.  An operation gives its error, the client operations *)
(* it attempted, and the store afterwards.                                 *)
(***************************************************************************)
\* SystemBase.ensure_dir_path
ensure_dir_path(p, relative) ==
    With(IF relative THEN p ELSE relpath(p),
         LAMBDA rel_path :
            IF is_locator(rel_path, TRUE) THEN rstrip(p)
            ELSE IF rel_path # <<>> THEN rstrip(p) \o <<SEP>>
            ELSE p)

\* Mutant of make_dir_: the operation is tried on the client, which puts
\* the directory marker or creates the locator
make_dir_put(client_kwargs) ==
    IF client_kwargs.Key # <<>>
    THEN [err |-> IF client_kwargs.Bucket \in locs THEN "none" ELSE "NotFound",
          calls |-> <<"put_object">>, locs |-> locs,
          objs |-> IF client_kwargs.Bucket \in locs
                      /\ ~HasObject(client_kwargs.Bucket, client_kwargs.Key)
                   THEN [objs EXCEPT ![client_kwargs.Bucket]
                                        = Append(@, client_kwargs.Key)]
                   ELSE objs]
    ELSE [err |-> "none", calls |-> <<"create_bucket">>,
          locs |-> locs \cup {client_kwargs.Bucket}, objs |-> objs]

\* SystemBase._make_dir (the underscore-led name cannot be kept)
make_dir_(client_kwargs) ==
    [err |-> "Unsupported", calls |-> <<>>, locs |-> locs, objs |-> objs]

\* SystemBase.make_dir
make_dir(p, relative) ==
    With(IF relative THEN p ELSE relpath(p),
         LAMBDA path0 :
            make_dir_(get_client_kwargs(ensure_dir_path(path0, TRUE))))

\* SystemBase._remove
remove_(client_kwargs) ==
    [err |-> "Unsupported", calls |-> <<>>, locs |-> locs, objs |-> objs]

\* SystemBase.remove
remove(p, relative) ==
    With(IF relative THEN p ELSE relpath(p),
         LAMBDA path0 : remove_(get_client_kwargs(path0)))

\* SystemBase.copy
copy(src, dst) ==
    [err |-> "Unsupported", calls |-> <<>>, locs |-> locs, objs |-> objs]

\* SystemBase._list_locators, SystemBase._list_objects
list_locators_base ==
    [err |-> "Unsupported", calls |-> <<>>, locs |-> locs, objs |-> objs]
list_objects_base(client_kwargs, pth, max_request_entries) ==
    [err |-> "Unsupported", calls |-> <<>>, locs |-> locs, objs |-> objs]

\* SystemBase.list_objects over them, consumed to its end: from the root
\* _list_locators raises before a locator is yielded, else _list_objects
\* before an object is
list_objects_default(p, relative, first_level, max_request_entries) ==
    With(IF relative THEN p ELSE relpath(p),
         LAMBDA path0 :
            IF path0 = <<>> THEN list_locators_base
            ELSE With(split_locator(path0),
                      LAMBDA sl : list_objects_base(get_client_kwargs(sl[1]),
                                                    sl[2], max_request_entries)))

\* The paths the operations are asked about: the root, a locator as a
\* path and as an URL, the content of a locator, objects
BasePaths ==
    {<<>>, <<"a">>, <<"a", SEP>>, LiteralRoot.text \o <<SEP, "b">>,
     <<"a", SEP, "a">>, <<"b", SEP, "a", SEP>>}

\* The System call of SpecBase with the result r
BaseCall(op, p, dst, fl, r) ==
    /\ call = NoCall
    /\ call' = [op |-> op, path |-> p, dst |-> dst, first_level |-> fl,
                calls |-> r.calls, err |-> r.err]
    /\ locs' = r.locs
    /\ objs' = r.objs
    /\ UNCHANGED <<pathVars, clientVars, cacheVars, ioVars>>

MakeDir(p) == BaseCall("make_dir", p, <<>>, FALSE, make_dir(p, FALSE))
Remove(p) == BaseCall("remove", p, <<>>, FALSE, remove(p, FALSE))
Copy(src, dst) == BaseCall("copy", src, dst, FALSE, copy(src, dst))
ListObjectsDefault(p, fl, n) ==
    BaseCall("list_objects", p, <<>>, fl, list_objects_default(p, FALSE, fl, n))

NextBase ==
    \/ \E p \in BasePaths : MakeDir(p)
    \/ \E p \in BasePaths : Remove(p)
    \/ \E src \in BasePaths, dst \in BasePaths : Copy(src, dst)
    \/ \E p \in BasePaths, fl \in BOOLEAN, n \in 0..MaxRequest :
          ListObjectsDefault(p, fl, n)

SpecBase == InitList /\ [][NextBase]_vars

\* C17: on a System whose backend overrides none of them, make_dir,
\* remove, copy and list_objects each fail with Unsupported, before any
\* operation of the backend client is attempted, and leave the stored
\* objects and locators as they were.
C17_DefaultsUnsupported ==
    [][call'.op \in {"make_dir", "remove", "copy", "list_objects"}
         => /\ call'.err = "Unsupported"
            /\ call'.calls = <<>>
            /\ locs' = locs
            /\ objs' = objs]_vars

\* make_dir of a locator that does not exist, given as an URL, on a store
\* that holds objects: it failed with Unsupported and the locator was not
\* made
C17_Witness ==
    /\ call.op = "make_dir"
    /\ call.path = LiteralRoot.text \o <<SEP, "b">>
    /\ call.err = "Unsupported"
    /\ call.calls = <<>>
    /\ locs = {<<"a">>}
    /\ objs[<<"a">>] # <<>>


(***************************************************************************)
(* SpecLoc: the locator functions of SystemBase applied to every path up   *)
(* to MaxPathLen, and make_dir on the S3 backend.  Locator "a" exists and  *)
(* is empty.                                                               *)
(***************************************************************************)
\* _S3System._make_dir: put_object of an empty body with a Key,
\* create_bucket without (a missing bucket fails the put: NoSuchBucket is
\* not in _ERROR_CODES and is raised as it is)
S3_make_dir(client_kwargs) ==
    IF client_kwargs.Key # <<>>
    THEN IF client_kwargs.Bucket \in locs
         THEN [err |-> "none",
               calls |-> << <<"put_object", client_kwargs.Bucket,
                              client_kwargs.Key>> >>,
               locs |-> locs,
               objs |-> IF HasObject(client_kwargs.Bucket, client_kwargs.Key)
                        THEN objs
                        ELSE [objs EXCEPT ![client_kwargs.Bucket]
                                             = Append(@, client_kwargs.Key)]]
         ELSE [err |-> "Server",
               calls |-> << <<"put_object", client_kwargs.Bucket,
                              client_kwargs.Key>> >>,
               locs |-> locs, objs |-> objs]
    ELSE [err |-> "none",
          calls |-> << <<"create_bucket", client_kwargs.Bucket, <<>> >> >>,
          locs |-> locs \cup {client_kwargs.Bucket},
          objs |-> IF client_kwargs.Bucket \in DOMAIN objs THEN objs
                   ELSE objs @@ (client_kwargs.Bucket :> <<>>)]

\* SystemBase.make_dir on _S3System
make_dir_s3(p, relative) ==
    With(IF relative THEN p ELSE relpath(p),
         LAMBDA path0 :
            S3_make_dir(get_client_kwargs(ensure_dir_path(path0, TRUE))))

InitLoc ==
    /\ path \in Paths
    /\ res = <<>>
    /\ locs = {<<"a">>}
    /\ objs = [l \in LocNames |-> <<>>]
    /\ call = NoCall
    /\ IoInit(<<>>)
    /\ ClientInit
    /\ CacheInit

\* The System call of SpecLoc on the drawn path
LocCall(op, relative, val, out, r) ==
    /\ call' = [op |-> op, relative |-> relative, val |-> val, out |-> out,
                calls |-> r.calls, err |-> r.err]
    /\ locs' = r.locs
    /\ objs' = r.objs
    /\ UNCHANGED <<pathVars, clientVars, cacheVars, ioVars>>

\* A call that reaches no backend operation
NoBackend == [err |-> "none", calls |-> <<>>, locs |-> locs, objs |-> objs]

\* system.is_locator(path, relative)
IsLocator(relative) ==
    /\ call = NoCall
    /\ LocCall("is_locator", relative, is_locator(path, relative), <<>>,
               NoBackend)

\* system.split_locator(path)
SplitLocator ==
    /\ call = NoCall
    /\ LocCall("split_locator", FALSE, FALSE, split_locator(path), NoBackend)

\* system.ensure_dir_path(path, relative), then on its own result
EnsureDirPath(relative) ==
    /\ \/ call = NoCall
       \/ /\ call.op = "ensure_dir_path"
          /\ call.relative = relative
          /\ Len(call.out) < MaxResolve
    /\ LocCall("ensure_dir_path", relative, FALSE,
               IF call = NoCall THEN <<ensure_dir_path(path, relative)>>
               ELSE Append(call.out,
                           ensure_dir_path(call.out[Len(call.out)], relative)),
               NoBackend)

\* system.make_dir(path, relative)
MakeDirS3(relative) ==
    /\ call = NoCall
    /\ LocCall("make_dir", relative, FALSE, <<>>, make_dir_s3(path, relative))

NextLoc ==
    \/ \E relative \in BOOLEAN : IsLocator(relative)
    \/ SplitLocator
    \/ \E relative \in BOOLEAN : EnsureDirPath(relative)
    \/ \E relative \in BOOLEAN : MakeDirS3(relative)

SpecLoc == InitLoc /\ [][NextLoc]_vars

\* The path the call works on once it is made relative
LocRelative == IF call.relative THEN path ELSE relpath(path)

\* C21: is_locator of a relative path is true iff the path is non-empty and
\* holds no separator once its trailing separators are stripped: false for
\* the empty path and for a path with a separator before its last
\* non-separator character.
C21_LocatorIffNoInnerSeparator ==
    call.op = "is_locator" => (call.val <=> NamesLocator(LocRelative))

\* is_locator was true of a relative path that ends in two separators
C21_Witness ==
    /\ call.op = "is_locator"
    /\ call.relative
    /\ path = <<"a", SEP, SEP>>
    /\ call.val

\* s holds a separator
HasSep(s) == \E i \in 1..Len(s) : s[i] = SEP

\* loc is the first segment of s
FirstSegment(loc, s) ==
    /\ ~HasSep(loc)
    /\ OccursAt(s, loc, 1)
    /\ (Len(loc) = Len(s) \/ s[Len(loc) + 1] = SEP)

C22_SplitLocatorOneSeparator ==
    call.op = "split_locator"
    => /\ FirstSegment(call.out[1], relpath(path))
       /\ HasSep(relpath(path))
            => call.out[1] \o <<SEP>> \o call.out[2] = relpath(path)
       /\ ~HasSep(relpath(path)) => call.out = <<relpath(path), <<>> >>
       /\ (NamesLocator(relpath(path))
             /\ Len(relpath(path)) <= LastNonSep(relpath(path)) + 1)
            => call.out[2] = <<>>
       /\ relpath(path) = <<>> => call.out = << <<>>, <<>> >>

\* What make_dir has to issue for the relative path rel: nothing is said
\* of the root; a locator is created under its name without trailing
\* separators; any other path is put as the key that, after its locator,
\* spells the path with exactly one trailing separator
MakeDirOk(rel, calls) ==
    \/ rel = <<>>
    \/ /\ NamesLocator(rel)
       /\ calls = << <<"create_bucket", rstrip(rel), <<>> >> >>
    \/ /\ ~NamesLocator(rel)
       /\ Len(calls) = 1
       /\ calls[1][1] = "put_object"
       /\ calls[1][3] # <<>>
       /\ calls[1][2] \o <<SEP>> \o calls[1][3] = rstrip(rel) \o <<SEP>>

\* What ensure_dir_path has to return for p, whose relative path is rel
EnsureOk(p, rel, out) ==
    /\ NamesLocator(rel) => out = rstrip(p)
    /\ (rel # <<>> /\ ~NamesLocator(rel)) => out = rstrip(p) \o <<SEP>>
    /\ rel = <<>> => out = p

\* C24: make_dir normalizes its target through ensure_dir_path: a path that
\* is neither a locator nor the root, with or without trailing separator,
\* is created as the key ending in exactly one separator; a locator is
\* created with all trailing separators removed; the root is left
\* unchanged; ensure_dir_path of its own result returns that result.
C24_MakeDirNormalized ==
    /\ call.op = "make_dir" => MakeDirOk(LocRelative, call.calls)
    /\ call.op = "ensure_dir_path"
         => /\ EnsureOk(path, LocRelative, call.out[1])
            /\ Len(call.out) >= 2 => call.out[2] = call.out[1]

\* The same for the relative paths in which no root occurs; this holds
C24_MakeDirNormalizedNoRoot ==
    /\ (call.op = "make_dir" /\ RootHits(LocRelative) = {})
         => MakeDirOk(LocRelative, call.calls)
    /\ call.op = "ensure_dir_path"
         => /\ EnsureOk(path, LocRelative, call.out[1])
            /\ Len(call.out) >= 2 => call.out[2] = call.out[1]

\* make_dir('a/s:a', relative) made the locator "a" again and put no key
C24_RootInKey ==
    /\ call.op = "make_dir"
    /\ call.relative
    /\ path = <<"a", SEP, "s", ":", "a">>
    /\ call.calls = << <<"create_bucket", <<"a">>, <<>> >> >>

\* make_dir('a/a//') put the marker "a/" into locator "a"
C24_NoRootWitness ==
    /\ call.op = "make_dir"
    /\ path = <<"a", SEP, "a", SEP, SEP>>
    /\ call.calls = << <<"put_object", <<"a">>, <<"a", SEP>> >> >>
    /\ objs[<<"a">>] = << <<"a", SEP>> >>

(***************************************************************************)
(* Buffered write: S3BufferedIO over the buffered stream base class.  The  *)
(* caller writes `content`; every full buffer, and at close the partly     *)
(* filled one, becomes a part uploaded by the worker pool (_flush); close   *)
(* waits for the parts and completes the upload (_close_writable).         *)
(***************************************************************************)
\* buffer_size of the streams, in bytes
BufferSize == 2

\* n distinct bytes
Bytes(n) == [i \in 1..n |-> i]

\* The sizes written and read back
RoundTripSizes ==
    {0, 1, BufferSize - 1, BufferSize, BufferSize + 1, (9 * BufferSize) \div 2,
     5 * BufferSize}

\* The number given to the next part: one more than the last
next_seek(n) == n + 1

\* _flush: 'UploadId' not in self._upload_args
no_upload_id(args) == \A a \in args : a[1] # "UploadId"

\* _flush: create_multipart_upload, once per stream
init_upload(args) ==
    IF no_upload_id(args) THEN args \cup {<<"UploadId", 1>>} ELSE args

\* Mutant of submit_part: the part is put in front of the list
submit_part_first(futures, part_number, body) ==
    <<[PartNumber |-> part_number, Body |-> body, response |-> "running",
       ETag |-> 0]>> \o futures

\* _flush: the buffer goes to a worker as upload_part(Body, PartNumber);
\* the future and the part number are appended to _write_futures
submit_part(futures, part_number, body) ==
    Append(futures, [PartNumber |-> part_number, Body |-> body,
                     response |-> "running", ETag |-> 0])

\* Mutant of result: the error of a failed upload is swallowed
result_no_raise(part) == [raises |-> FALSE, ETag |-> part.PartNumber]

\* Future.result() of a part whose upload ended: the response with its
\* ETag, or the error of the upload raised again
result(part) ==
    [raises |-> part.response = "failed", ETag |-> part.PartNumber]

\* The bodies of the parts from the i-th on, one after the other
RECURSIVE join_bodies(_, _)
join_bodies(parts, i) ==
    IF i > Len(parts) THEN <<>> ELSE parts[i].Body \o join_bodies(parts, i + 1)

\* The part list is in ascending PartNumber order
ascending(parts) ==
    \A i, j \in 1..Len(parts) : i < j => parts[i].PartNumber < parts[j].PartNumber

\* The backend's complete_multipart_upload: the object is the bodies of the
\* listed parts; a list that is not in ascending order is refused
assemble(parts, old) ==
    IF ascending(parts)
    THEN [exists |-> TRUE, data |-> join_bodies(parts, 1)]
    ELSE old

\* A part other than i, dispatched before it, is still being uploaded
EarlierRunning(futures, i) ==
    \E j \in 1..Len(futures) :
        /\ futures[j].PartNumber < futures[i].PartNumber
        /\ futures[j].response = "running"

\* The buffer body becomes the next part: _seek moves on, then _flush
Dispatch(body) ==
    /\ seek' = next_seek(seek)
    /\ upload_args' = init_upload(upload_args)
    /\ write_futures' = submit_part(write_futures, next_seek(seek), body)

\* write(): the bytes fill the buffer; a full buffer is dispatched and a new
\* one opened
Write ==
    /\ wpc = "open"
    /\ wpos < Len(content)
    /\ LET room == BufferSize - Len(wbuf)
           left == Len(content) - wpos
           n == IF room < left THEN room ELSE left
           buf == wbuf \o SubSeq(content, wpos + 1, wpos + n)
       IN  /\ wpos' = wpos + n
           /\ IF Len(buf) = BufferSize
              THEN wbuf' = <<>> /\ Dispatch(buf)
              ELSE wbuf' = buf /\ UNCHANGED <<seek, upload_args, write_futures>>
    /\ UNCHANGED <<content, wpc, widx, completed, reordered, object>>
    /\ UNCHANGED <<pathVars, clientVars, cacheVars, sysVars, rdVars>>

\* close(), first half: what is left in the buffer is dispatched, then
\* _close_writable starts
Close ==
    /\ wpc = "open"
    /\ wpos = Len(content)
    /\ IF wbuf # <<>> THEN Dispatch(wbuf)
       ELSE UNCHANGED <<seek, upload_args, write_futures>>
    /\ wbuf' = <<>>
    /\ wpc' = "closing"
    /\ widx' = 1
    /\ UNCHANGED <<content, wpos, completed, reordered, object>>
    /\ UNCHANGED <<pathVars, clientVars, cacheVars, sysVars, rdVars>>

\* A worker ends upload_part of the i-th dispatched part with a response
WorkerDone(i) ==
    /\ write_futures[i].response = "running"
    /\ write_futures' = [write_futures EXCEPT ![i].response = "done"]
    /\ reordered' = (reordered \/ EarlierRunning(write_futures, i))
    /\ UNCHANGED <<content, wpos, wbuf, seek, upload_args, wpc, widx, completed,
                   object>>
    /\ UNCHANGED <<pathVars, clientVars, cacheVars, sysVars, rdVars>>

\* A worker ends upload_part of the i-th dispatched part with an error
WorkerFail(i) ==
    /\ write_futures[i].response = "running"
    /\ write_futures' = [write_futures EXCEPT ![i].response = "failed"]
    /\ reordered' = (reordered \/ EarlierRunning(write_futures, i))
    /\ UNCHANGED <<content, wpos, wbuf, seek, upload_args, wpc, widx, completed,
                   object>>
    /\ UNCHANGED <<pathVars, clientVars, cacheVars, sysVars, rdVars>>

\* _close_writable, one turn of "for part in self._write_futures": result()
\* blocks until the upload ended, then gives the ETag or raises
CloseAwait ==
    /\ wpc = "closing"
    /\ widx <= Len(write_futures)
    /\ write_futures[widx].response # "running"
    /\ LET r == result(write_futures[widx])
       IN  IF r.raises
           THEN wpc' = "raised" /\ UNCHANGED <<write_futures, widx>>
           ELSE /\ write_futures' = [write_futures EXCEPT ![widx].ETag = r.ETag]
                /\ widx' = widx + 1
                /\ UNCHANGED wpc
    /\ UNCHANGED <<content, wpos, wbuf, seek, upload_args, completed, reordered,
                   object>>
    /\ UNCHANGED <<pathVars, clientVars, cacheVars, sysVars, rdVars>>

\* _close_writable after the loop: complete_multipart_upload with the list
\* of parts and self._upload_args['UploadId'] (KeyError when no part was
\* ever flushed)
CloseComplete ==
    /\ wpc = "closing"
    /\ widx > Len(write_futures)
    /\ IF no_upload_id(upload_args)
       THEN wpc' = "raised" /\ UNCHANGED <<completed, object>>
       ELSE /\ completed' = Append(completed,
                  [i \in 1..Len(write_futures) |-> write_futures[i].PartNumber])
            /\ object' = assemble(write_futures, object)
            /\ wpc' = IF ascending(write_futures) THEN "closed" ELSE "raised"
    /\ UNCHANGED <<content, wpos, wbuf, seek, upload_args, write_futures, widx,
                   reordered>>
    /\ UNCHANGED <<pathVars, clientVars, cacheVars, sysVars, rdVars>>


(***************************************************************************)
(* Buffered read: max_buffers range reads are kept in flight by the worker *)
(* pool, the caller is served from the oldest one.                         *)
(***************************************************************************)
\* Most buffers a read stream preloads
MaxBuffers == 2

\* S3RawIO._read_range(start, end): the bytes start..end-1 of the object,
\* nothing when start is at or after its end (InvalidRange: EOF)
read_range(data, start, end) ==
    IF start >= Len(data) THEN <<>>
    ELSE SubSeq(data, start + 1, IF end < Len(data) THEN end ELSE Len(data))

\* The range read of buffer k handed to the worker pool
request(k) == [index |-> k, response |-> "running", data |-> <<>>]

\* Mutant of next_buffer: the caller is served from any buffer that is ready
next_buffer_any_ready(queue) ==
    IF \E i \in 1..Len(queue) : queue[i].response = "done"
    THEN CHOOSE i \in 1..Len(queue) :
            /\ queue[i].response = "done"
            /\ \A j \in 1..(i - 1) : queue[j].response # "done"
    ELSE 0

\* The place in the queue of the buffer the caller is served from: always
\* the oldest one, 0 while its range read has not ended (the caller waits)
next_buffer(queue) ==
    IF queue # <<>> /\ queue[1].response = "done" THEN 1 ELSE 0

\* The queue without its i-th entry
drop_buffer(queue, i) ==
    SubSeq(queue, 1, i - 1) \o SubSeq(queue, i + 1, Len(queue))

\* The stream is opened for reading once the writer is through: Not-Found
\* when there is no object, else the first max_buffers range reads start
OpenRead(m) ==
    /\ wpc \in {"closed", "raised"}
    /\ rpc = "idle"
    /\ IF object.exists
       THEN /\ rpc' = "reading"
            /\ max_buffers' = m
            /\ read_queue' = [k \in 1..m |-> request(k - 1)]
            /\ rnext' = m
       ELSE /\ rpc' = "failed"
            /\ UNCHANGED <<max_buffers, read_queue, rnext>>
    /\ UNCHANGED <<roff, readout, overtaken>>
    /\ UNCHANGED <<pathVars, clientVars, cacheVars, sysVars, wrVars>>

\* A worker ends the range read of the i-th queued buffer
FetchDone(i) ==
    /\ read_queue[i].response = "running"
    /\ read_queue' =
          [read_queue EXCEPT ![i] =
              [index |-> @.index, response |-> "done",
               data |-> read_range(object.data, @.index * BufferSize,
                                   (@.index + 1) * BufferSize)]]
    /\ overtaken' = (overtaken \/ \E j \in 1..Len(read_queue) :
                                     /\ read_queue[j].index < read_queue[i].index
                                     /\ read_queue[j].response = "running")
    /\ UNCHANGED <<rpc, max_buffers, rnext, roff, readout>>
    /\ UNCHANGED <<pathVars, clientVars, cacheVars, sysVars, wrVars>>

\* read(): up to n bytes are taken from the current buffer; a drained
\* buffer leaves the queue and the next range read starts; an empty buffer
\* is the end of the object
ReadStep(n) ==
    /\ rpc = "reading"
    /\ next_buffer(read_queue) # 0
    /\ LET k == next_buffer(read_queue)
           buf == read_queue[k].data
           left == Len(buf) - roff
           take == IF n < left THEN n ELSE left
       IN  IF buf = <<>>
           THEN /\ rpc' = "eof"
                /\ UNCHANGED <<read_queue, rnext, roff, readout>>
           ELSE /\ readout' = readout \o SubSeq(buf, roff + 1, roff + take)
                /\ IF take = left
                   THEN /\ read_queue' =
                              Append(drop_buffer(read_queue, k), request(rnext))
                        /\ rnext' = rnext + 1
                        /\ roff' = 0
                   ELSE /\ roff' = roff + take
                        /\ UNCHANGED <<read_queue, rnext>>
                /\ UNCHANGED rpc
    /\ UNCHANGED <<max_buffers, overtaken>>
    /\ UNCHANGED <<pathVars, clientVars, cacheVars, sysVars, wrVars>>

(***************************************************************************)
(* SpecIO: content written through a buffered stream, then read back.      *)
(***************************************************************************)
InitIO ==
    /\ path = <<>>
    /\ res = <<>>
    /\ locs = {}
    /\ objs = <<>>
    /\ call = NoCall
    /\ \E n \in RoundTripSizes : IoInit(Bytes(n))
    /\ ClientInit
    /\ CacheInit

NextIO ==
    \/ Write
    \/ Close
    \/ \E i \in 1..Len(write_futures) : WorkerDone(i)
    \/ \E i \in 1..Len(write_futures) : WorkerFail(i)
    \/ CloseAwait
    \/ CloseComplete
    \/ \E m \in 1..MaxBuffers : OpenRead(m)
    \/ \E i \in 1..Len(read_queue) : FetchDone(i)
    \/ \E n \in {1, BufferSize} : ReadStep(n)

SpecIO == InitIO /\ [][NextIO]_vars


\* Some dispatched part upload failed
SomePartFailed ==
    \E i \in 1..Len(write_futures) : write_futures[i].response = "failed"

\* C6: when any part upload of a buffered write stream fails, closing the
\* stream never issues complete_multipart_upload for that upload, whatever
\* the order in which the part uploads finished.
C6_NoCompletionAfterFailure ==
    SomePartFailed => completed = <<>>

\* Close raised the error of a failed part of a three-part upload whose
\* uploads ended out of dispatch order, and completed nothing
C6_Witness ==
    /\ wpc = "raised"
    /\ Len(write_futures) >= 3
    /\ write_futures[2].response = "failed"
    /\ write_futures[1].response = "done"
    /\ reordered
    /\ completed = <<>>

\* C7: when a part upload fails, close() surfaces the error only after
\* every other dispatched part upload has resolved.
C7_RaiseAfterDrain ==
    (wpc = "raised" /\ SomePartFailed)
    => \A i \in 1..Len(write_futures) : write_futures[i].response # "running"

\* C8: on a clean close the completion call is issued exactly once, only
\* after every dispatched part upload has resolved, and the part list it
\* binds is in strictly increasing PartNumber order, whatever the order in
\* which the uploads completed.
C8_CleanCloseCompletesOnceInOrder ==
    /\ Len(completed) <= 1
    /\ wpc = "closed" => Len(completed) = 1
    /\ completed # <<>>
       => /\ \A i \in 1..Len(write_futures) : write_futures[i].response = "done"
          /\ Len(completed[1]) = Len(write_futures)
          /\ \A i, j \in 1..Len(completed[1]) :
                i < j => completed[1][i] < completed[1][j]
          /\ {completed[1][i] : i \in 1..Len(completed[1])} = 1..seek

\* A stream of at least three parts, whose uploads ended out of dispatch
\* order, was closed cleanly
C8_Witness ==
    /\ wpc = "closed"
    /\ Len(write_futures) >= 3
    /\ reordered
    /\ Len(completed) = 1

\* The write stream was closed without a failed part upload and the read
\* stream, opened on the object, was read to its end or failed
RoundTripDone ==
    /\ wpc \in {"closed", "raised"}
    /\ ~SomePartFailed
    /\ rpc \in {"eof", "failed"}

\* C9: writing content of size S through a buffered write stream, closing
\* it and reading the object back fully through a buffered read stream
\* returns exactly the written bytes, for S in {0, 1, buffer_size-1,
\* buffer_size, buffer_size+1, 4.5*buffer_size, 5*buffer_size}.
C9_RoundTrip ==
    RoundTripDone => (rpc = "eof" /\ readout = content)

\* The same for the sizes above 0; this holds
C9_RoundTripNonEmpty ==
    (RoundTripDone /\ content # <<>>) => (rpc = "eof" /\ readout = content)

\* 4.5 buffers were written, the parts uploaded and the buffers fetched out
\* of order, and read back to the end
C9_NonEmptyWitness ==
    /\ RoundTripDone
    /\ 2 * Len(content) = 9 * BufferSize
    /\ reordered
    /\ overtaken
    /\ rpc = "eof"

\* C10: a buffered read stream delivers the buffers in increasing sequence
\* order and never serves buffer k+1 before buffer k has been fully
\* delivered, even when the fetch for k+1 completes before the fetch for k:
\* what was delivered is at all times the beginning of the object, made of
\* every buffer before the oldest queued one and the delivered part of that.
C10_ReadInOrder ==
    /\ Len(readout) <= Len(object.data)
    /\ readout = SubSeq(object.data, 1, Len(readout))
    /\ rpc = "reading"
       => /\ \A i \in 1..Len(read_queue) :
                read_queue[i].index = rnext - Len(read_queue) + i - 1
          /\ Len(readout) =
                roff + (IF read_queue[1].index * BufferSize < Len(object.data)
                        THEN read_queue[1].index * BufferSize
                        ELSE Len(object.data))

\* With max_buffers = 2 a fetch ended before the fetch of the buffer before
\* it, and more than two buffers were delivered
C10_Witness ==
    /\ max_buffers = 2
    /\ overtaken
    /\ Len(readout) > 2 * BufferSize
    /\ rpc = "reading"


\* The caller writes on and closes the stream, the worker pool runs every
\* submitted upload to its end, close() runs to its end
FairIO ==
    /\ WF_vars(Write)
    /\ WF_vars(Close)
    /\ WF_vars(\E i \in 1..Len(write_futures) : WorkerDone(i) \/ WorkerFail(i))
    /\ WF_vars(CloseAwait)
    /\ WF_vars(CloseComplete)

SpecIOFair == SpecIO /\ FairIO

\* create_multipart_upload was issued for the stream
UploadStarted == ~no_upload_id(upload_args)

\* The upload was ended on the backend: S3BufferedIO ends an upload with
\* complete_multipart_upload only, it has no call of abort_multipart_upload
UploadEnded == completed # <<>>

\* C28: every multipart upload a buffered write stream has started is, once
\* the stream is closed, eventually completed or aborted, on every exit path
\* including a failed part upload; no started upload stays open for ever.
C28_UploadEventuallyEnded == UploadStarted ~> UploadEnded

\* A started upload of which no part fails is completed; this holds
C28_UploadEndedUnlessPartFailed ==
    UploadStarted ~> (UploadEnded \/ SomePartFailed)

\* close() raised the error of a failed part: the upload is started and
\* neither completed nor aborted, and the stream takes no further step
C28_LeftOpen ==
    /\ wpc = "raised"
    /\ SomePartFailed
    /\ UploadStarted
    /\ ~UploadEnded


(***************************************************************************)
(* SpecClient: threads that read the client property of one System.  The   *)
(* property tests self._client, calls _get_client, stores the handle and   *)
(* returns self._client, with no lock: the steps of the threads interleave.*)
(***************************************************************************)
\* Most accesses of one thread
MaxAccesses == 2

\* if self._client is None
ClientCheck(t) ==
    /\ thr[t].pc = "idle"
    /\ thr[t].n < MaxAccesses
    /\ thr' = [thr EXCEPT ![t].pc = IF client = 0 THEN "get" ELSE "return"]
    /\ UNCHANGED <<client, made, returned, pathVars, sysVars,
                   cacheVars, ioVars>>

\* self._get_client(): a new handle
GetClient(t) ==
    /\ thr[t].pc = "get"
    /\ made' = made + 1
    /\ thr' = [thr EXCEPT ![t].pc = "store", ![t].tmp = made + 1]
    /\ UNCHANGED <<client, returned, pathVars, sysVars,
                   cacheVars, ioVars>>

\* self._client = (the handle _get_client returned)
ClientStore(t) ==
    /\ thr[t].pc = "store"
    /\ client' = thr[t].tmp
    /\ thr' = [thr EXCEPT ![t].pc = "return"]
    /\ UNCHANGED <<made, returned, pathVars, sysVars,
                   cacheVars, ioVars>>

\* return self._client
ClientReturn(t) ==
    /\ thr[t].pc = "return"
    /\ returned' = returned \cup {client}
    /\ thr' = [thr EXCEPT ![t].pc = "idle", ![t].n = @ + 1]
    /\ UNCHANGED <<client, made, pathVars, sysVars,
                   cacheVars, ioVars>>

NextClient ==
    \/ \E t \in Threads : ClientCheck(t)
    \/ \E t \in Threads : GetClient(t)
    \/ \E t \in Threads : ClientStore(t)
    \/ \E t \in Threads : ClientReturn(t)

SpecClient == InitSys /\ [][NextClient]_vars

\* C18: a System creates its client handle at most once and reuses it:
\* after any accesses to the client property, first accesses by several
\* threads at the same time included, _get_client has been invoked exactly
\* once and every access returned the same handle.
C18_ClientCreatedOnce ==
    /\ made <= 1
    /\ Cardinality(returned) <= 1
    /\ returned # {} => made = 1

(***************************************************************************)
(* SpecRaw: range reads of S3RawIO on an object put as a whole, with a     *)
(* client whose request may fail.                                          *)
(***************************************************************************)
\* Largest object, in bytes
MaxObject == 2

\* _ERROR_CODES: the client error codes that become an IO error
ERROR_CODES ==
    [c \in {"AccessDenied", "NoSuchKey", "403", "404"} |->
        IF c \in {"AccessDenied", "403"} THEN "ObjectPermissionError"
        ELSE "ObjectNotFoundError"]

\* The failures the client can make a request end with: the codes of
\* _ERROR_CODES and a server error
ClientFaults == DOMAIN ERROR_CODES \cup {"InternalError"}

\* client.get_object(Range=...) on the object: the code of the ClientError
\* it raises ("none": it returns) and the body.  A missing object is
\* NoSuchKey, a range that starts at or after the end is InvalidRange; end
\* = 0 leaves the end of the range open.
get_object(obj, start, end, fault) ==
    IF fault # "none" THEN [code |-> fault, body |-> <<>>]
    ELSE IF ~obj.exists THEN [code |-> "NoSuchKey", body |-> <<>>]
    ELSE IF start >= Len(obj.data) THEN [code |-> "InvalidRange", body |-> <<>>]
    ELSE [code |-> "none",
          body |-> SubSeq(obj.data, start + 1,
                          IF end = 0 \/ end > Len(obj.data)
                          THEN Len(obj.data) ELSE end)]

\* _handle_client_error around a request that ended as r: a code of
\* _ERROR_CODES raises its IO error, any other ClientError is raised again
handle_client_error(r) ==
    [exc |-> IF r.code = "none" THEN "none"
             ELSE IF r.code \in DOMAIN ERROR_CODES THEN ERROR_CODES[r.code]
             ELSE "ClientError",
     code |-> r.code, body |-> r.body]

\* Mutant of read_range_: every ClientError is taken for the end of file
read_range_any_eof(obj, start, end, fault) ==
    With(handle_client_error(get_object(obj, start, end, fault)),
         LAMBDA r :
            IF r.exc = "ClientError" THEN [exc |-> "none", val |-> <<>>]
            ELSE IF r.exc # "none" THEN [exc |-> r.exc, val |-> <<>>]
            ELSE [exc |-> "none", val |-> r.body])

\* S3RawIO._read_range with the failures of the request: a ClientError
\* with the code InvalidRange gives bytes(), any other exception leaves
\* the method (the underscore-led name cannot be kept, and read_range is
\* the read without failures)
read_range_(obj, start, end, fault) ==
    With(handle_client_error(get_object(obj, start, end, fault)),
         LAMBDA r :
            IF r.exc = "ClientError" /\ r.code = "InvalidRange"
            THEN [exc |-> "none", val |-> <<>>]
            ELSE IF r.exc # "none" THEN [exc |-> r.exc, val |-> <<>>]
            ELSE [exc |-> "none", val |-> r.body])

\* S3RawIO._flush: the object is put as a whole
RawFlush(n) ==
    /\ call = NoCall
    /\ object' = [exists |-> TRUE, data |-> Bytes(n)]
    /\ UNCHANGED <<pathVars, clientVars, cacheVars, sysVars, rdVars>>
    /\ UNCHANGED <<content, wpos, wbuf, seek, upload_args, write_futures, wpc,
                   widx, completed, reordered>>

\* raw._read_range(start, end) while the client fails with f ("none": it
\* does not)
ReadRange(start, end, f) ==
    /\ call = NoCall
    /\ call' = With(read_range_(object, start, end, f),
                     LAMBDA r :
                        [op |-> "read_range", start |-> start, end |-> end,
                         fault |-> f, err |-> r.exc, val |-> r.val])
    /\ UNCHANGED <<locs, objs, pathVars, clientVars, cacheVars, ioVars>>

NextRaw ==
    \/ \E n \in 0..MaxObject : RawFlush(n)
    \/ \E start \in 0..(MaxObject + 1), end \in 0..(MaxObject + 1),
          f \in ClientFaults \cup {"none"} :
          (end = 0 \/ end > start) /\ ReadRange(start, end, f)

SpecRaw == InitSys /\ [][NextRaw]_vars

\* C19: a raw range read that starts at or after the end of the object
\* returns an empty byte string instead of raising, while every other
\* failure of the request (server error, Not-Found, PermissionDenied)
\* reaches the caller and is never reported as the end of the stream.
C19_EofEmptyOtherFailuresRaise ==
    call.op = "read_range"
    => IF call.fault # "none"
       THEN call.err = (IF call.fault \in {"AccessDenied", "403"}
                        THEN "ObjectPermissionError"
                        ELSE IF call.fault \in {"NoSuchKey", "404"}
                        THEN "ObjectNotFoundError"
                        ELSE "ClientError")
       ELSE IF ~object.exists THEN call.err = "ObjectNotFoundError"
       ELSE /\ call.err = "none"
            /\ call.start >= Len(object.data) => call.val = <<>>
            /\ call.start < Len(object.data) => call.val # <<>>

\* A read that starts at the end of an object of two bytes returned no
\* byte and no error
C19_Witness ==
    /\ call.op = "read_range"
    /\ call.fault = "none"
    /\ object.exists
    /\ Len(object.data) = 2
    /\ call.start = 2
    /\ call.err = "none"
    /\ call.val = <<>>


(***************************************************************************)
(* SpecCache: the disk cache of airfs (_core/cache.py).  One name is       *)
(* cached; its objects are stored in CACHE_DIR in the file <hash>s (short  *)
(* mode) or <hash>l (long mode), whose modification time is the age of the *)
(* entry.  Time passes between the calls in steps of Deltas seconds.       *)
(***************************************************************************)
CACHE_LONG_EXPIRY == 172800
CACHE_SHORT_EXPIRY == 60

\* The modes, in the order get_cache looks them up
Modes == <<"s", "l">>

\* The objects given to set_cache
CacheObjects == {1, 2}

\* The seconds that pass between two calls
Deltas == {1, CACHE_SHORT_EXPIRY, CACHE_LONG_EXPIRY - 1, CACHE_LONG_EXPIRY}

\* How many times the time moves on, how many calls are made
MaxTicks == 2
MaxCacheOps == 4

\* _get_expiry: the oldest modification time that is not expired, per mode
get_expiry(current_time) ==
    [m \in {"s", "l"} |-> IF m = "s" THEN current_time - CACHE_SHORT_EXPIRY
                          ELSE current_time - CACHE_LONG_EXPIRY]

\* get_cache, "for mode in ('s', 'l')" from the i-th mode on: a missing file
\* is passed over, an expired one removed and passed over, the first other
\* one is read (and touched, in long mode); NoCacheException after the loop
RECURSIVE get_cache_from(_, _, _)
get_cache_from(files, i, current_time) ==
    IF i > Len(Modes)
    THEN [err |-> "NoCache", obj |-> 0, mode |-> "none", files |-> files]
    ELSE IF ~files[Modes[i]].exists
    THEN get_cache_from(files, i + 1, current_time)
    ELSE IF files[Modes[i]].mtime < get_expiry(current_time)[Modes[i]]
    THEN get_cache_from([files EXCEPT ![Modes[i]] = NoFile], i + 1, current_time)
    ELSE [err |-> "none", obj |-> files[Modes[i]].obj, mode |-> Modes[i],
          files |-> IF Modes[i] = "l"
                    THEN [files EXCEPT ![Modes[i]].mtime = current_time]
                    ELSE files]

\* get_cache(name)
get_cache(files, current_time) == get_cache_from(files, 1, current_time)

\* set_cache(name, obj, long): the file of the mode is written anew
set_cache(files, obj, long, current_time) ==
    [files EXCEPT ![IF long THEN "l" ELSE "s"]
                     = [exists |-> TRUE, mtime |-> current_time, obj |-> obj]]

\* clear_cache(): every expired file is removed
clear_cache(files, current_time) ==
    [m \in DOMAIN files |->
        IF files[m].exists /\ files[m].mtime < get_expiry(current_time)[m]
        THEN NoFile ELSE files[m]]

InitCache ==
    /\ path = <<>>
    /\ res = <<>>
    /\ locs = {}
    /\ objs = <<>>
    /\ call = NoCall
    /\ IoInit(<<>>)
    /\ ClientInit
    /\ CacheInit

\* The call of SpecCache with its outcome; before holds the files found
CacheCall(op, obj, long, r) ==
    /\ hist.ops < MaxCacheOps
    /\ call' = [op |-> op, obj |-> r.obj, long |-> long, err |-> r.err,
                mode |-> r.mode, at |-> now, before |-> cache,
                latest |-> hist.latest,
                set_at |-> hist.set_at, touched |-> hist.touched]
    /\ cache' = r.files
    /\ UNCHANGED <<now, locs, objs, pathVars, clientVars, ioVars>>

\* set_cache(name, obj, long)
SetCache(obj, long) ==
    /\ CacheCall("set_cache", obj, long,
                 [err |-> "none", obj |-> obj, mode |-> IF long THEN "l" ELSE "s",
                  files |-> set_cache(cache, obj, long, now)])
    /\ hist' = [hist EXCEPT
                  !.ops = @ + 1,
                  !.latest = [obj |-> obj, mode |-> IF long THEN "l" ELSE "s"],
                  !.set_at = [@ EXCEPT ![IF long THEN "l" ELSE "s"] = now],
                  !.touched = now,
                  !.mixed = @ \/ hist.latest.mode = (IF long THEN "s" ELSE "l")]

\* get_cache(name)
GetCache ==
    /\ CacheCall("get_cache", 0, FALSE, get_cache(cache, now))
    /\ hist' = [hist EXCEPT
                  !.ops = @ + 1,
                  !.touched = IF get_cache(cache, now).err = "none" THEN now ELSE @]

\* clear_cache()
ClearCache ==
    /\ CacheCall("clear_cache", 0, FALSE,
                 [err |-> "none", obj |-> 0, mode |-> "none",
                  files |-> clear_cache(cache, now)])
    /\ hist' = [hist EXCEPT !.ops = @ + 1]

\* d seconds pass
Tick(d) ==
    /\ hist.ticks < MaxTicks
    /\ now' = now + d
    /\ hist' = [hist EXCEPT !.ticks = @ + 1]
    /\ UNCHANGED <<cache, call, locs, objs, pathVars, clientVars, ioVars>>

NextCache ==
    \/ \E obj \in CacheObjects, long \in BOOLEAN : SetCache(obj, long)
    \/ GetCache
    \/ ClearCache
    \/ \E d \in Deltas : Tick(d)

SpecCache == InitCache /\ [][NextCache]_vars

\* The expiry delay of a mode
Expiry(m) == IF m = "s" THEN CACHE_SHORT_EXPIRY ELSE CACHE_LONG_EXPIRY

\* The file f of mode m is older than its expiry at time t
Expired(f, m, t) == f.exists /\ t - f.mtime > Expiry(m)

\* The last call was get_cache
CacheRead == call.op = "get_cache"

\* A short-lived entry is not returned once its delay has passed since it
\* was set
ShortFixedExpiry ==
    call.mode = "s" => call.at - call.set_at["s"] <= CACHE_SHORT_EXPIRY

\* The entry set last is long-lived, and the name was set or read with
\* success less than the long delay ago: it is returned, and touched
LongResetOnRead ==
    (call.latest.mode = "l" /\ call.at - call.touched < CACHE_LONG_EXPIRY)
    => /\ call.err = "none"
       /\ call.obj = call.latest.obj
       /\ cache["l"].mtime = call.at

\* No expired entry is returned, the expired entries that were looked up
\* are deleted, and NoCacheException is raised iff no entry is left
ExpiredDeleted ==
    /\ call.err = "none" => ~Expired(call.before[call.mode], call.mode, call.at)
    /\ \A m \in {"s", "l"} :
          (Expired(call.before[m], m, call.at) /\ (call.mode = "s" => m = "s"))
          => ~cache[m].exists
    /\ call.err = "NoCache"
         <=> \A m \in {"s", "l"} :
                ~call.before[m].exists \/ Expired(call.before[m], m, call.at)

\* C25: a short-lived entry has a fixed expiry: get_cache never returns it
\* once CACHE_SHORT_EXPIRY has passed since it was set, however often it
\* was read; a long-lived entry has its expiry reset by every successful
\* read and stays retrievable while consecutive reads are less than
\* CACHE_LONG_EXPIRY apart; an expired entry is deleted and reported as
\* NoCacheException.
C25_ShortFixedLongReset ==
    CacheRead => (ShortFixedExpiry /\ LongResetOnRead /\ ExpiredDeleted)

\* The same for a name that was only ever set in one mode; this holds
C25_ShortFixedLongResetOneMode ==
    (CacheRead /\ ~hist.mixed)
    => (ShortFixedExpiry /\ LongResetOnRead /\ ExpiredDeleted)

\* A long-lived entry, read one second before its delay ended, was read
\* again just as long after that
C25_OneModeWitness ==
    /\ CacheRead
    /\ ~hist.mixed
    /\ call.latest.mode = "l"
    /\ call.at = 2 * (CACHE_LONG_EXPIRY - 1)
    /\ call.err = "none"

\* The long-lived entry set last was passed over by a read that the older
\* short-lived entry served, and had expired at the next read, made less
\* than CACHE_LONG_EXPIRY later
C25_LongLost ==
    /\ CacheRead
    /\ call.latest.mode = "l"
    /\ call.at - call.touched < CACHE_LONG_EXPIRY
    /\ call.err = "NoCache"

\* No entry had expired when the call was made: the file of the entry set
\* last was there (it is removed only once expired), no file was expired
NoneExpired ==
    /\ call.before[call.latest.mode].exists
    /\ \A m \in {"s", "l"} : ~Expired(call.before[m], m, call.at)

\* C30: after any sequence of set_cache calls for one name, in short or
\* long mode in any order, a get_cache made before any entry has expired
\* returns the object of the most recent set_cache, and get_cache never
\* returns an object that a later set_cache for the name has replaced.
C30_LatestSetWins ==
    (CacheRead /\ call.latest.mode # "none")
    => /\ NoneExpired => (call.err = "none" /\ call.obj = call.latest.obj)
       /\ call.err = "none" => call.obj = call.latest.obj

\* The same for a name that was only ever set in one mode; this holds
C30_LatestSetWinsOneMode ==
    (CacheRead /\ call.latest.mode # "none" /\ ~hist.mixed)
    => /\ NoneExpired => (call.err = "none" /\ call.obj = call.latest.obj)
       /\ call.err = "none" => call.obj = call.latest.obj

\* Object 1 was set in short mode, then object 2 in long mode, and
\* get_cache returned object 1 at once
C30_StaleShort ==
    /\ CacheRead
    /\ call.at = 0
    /\ call.before = [m \in {"s", "l"} |->
                        [exists |-> TRUE, mtime |-> 0,
                         obj |-> IF m = "s" THEN 1 ELSE 2]]
    /\ call.latest = [obj |-> 2, mode |-> "l"]
    /\ call.obj = 1

=============================================================================
